---- MODULE Spec2Model ----
(***************************************************************************)
(* microbox: the container bring-up state machine.                         *)
(*                                                                         *)
(* Two processes, the supervisor ("parent") and the cloned child, are      *)
(* modelled with one action per system call or library call of             *)
(* microbox_sandbox_spawn / main and of the functions they call.  The      *)
(* outcome of every call that can fail is chosen nondeterministically.     *)
(* The child's straight-line code between the barrier and execve is        *)
(* modelled as a program: a sequence of steps computed from the options by *)
(* operators that mirror the C functions (microsandbox_setup_tmpfs, ...).  *)
(*                                                                         *)
(* Spec follows one sandbox; SpecSeccomp its syscall lists; SpecHost       *)
(* several sandboxes and the network state of their host; SpecCgroup the   *)
(* cgroup directories successive sandboxes leave on the host.  The other   *)
(* specifications follow one function each, over a set of arguments.       *)
(***************************************************************************)
EXTENDS Integers, Sequences, FiniteSets, TLC

VARIABLES
  opts,     \* sandbox_options_t handed to microbox_sandbox_spawn
  ppc,      \* parent: position in main / microbox_sandbox_spawn
  errno,    \* parent: the C errno
  ret,      \* parent: value returned by microbox_sandbox_spawn (None before)
  pstatus,  \* parent: process exit status (None while running)
  ptrace,   \* parent: calls performed after clone3, with their outcome
  pipe,     \* number of bytes in the barrier pipe
  rd,       \* processes holding the read end of the barrier pipe
  wr,       \* processes holding the write end of the barrier pipe
  cpc,      \* child: "none", "barrier", "run", "execd", "exited"
  prog,     \* child: its code after the barrier, ChildProgram(opts)
  cidx,     \* child: index of the next step of prog
  ctrace,   \* child: steps performed after the barrier, with their outcome
  cexit,    \* child: exit status (None while running)
  filter,   \* child: the seccomp filter (loaded flag, syscall numbers with a rule)
  faults,   \* number of failures injected so far after which the code carries on
  host,     \* the host: network interfaces, addresses, firewall, net namespaces
  boxes,    \* the sandboxes run on one host, each with its supervisor and child
  cgroupfs, \* the host's /sys/fs/cgroup: the microbox-<pid> directories
  frame     \* the call of one function followed on its own: arguments, locals, result

vars == <<opts, prog, ppc, errno, ret, pstatus, ptrace, pipe, rd, wr,
          cpc, cidx, ctrace, cexit, filter, faults, host, boxes, cgroupfs, frame>>

pvars == <<ppc, errno, ret, pstatus, ptrace>>
cvars == <<cpc, cidx, ctrace, cexit, filter>>
hvars == <<host, boxes, cgroupfs, frame>>
svars == <<opts, prog, pvars, pipe, rd, wr, cvars, frame>>

(***************************************************************************)
(* Bounds of the model.                                                    *)
(***************************************************************************)
MaxMounts == 2   \* user bind mounts per sandbox
MaxFaults == 1   \* injected failures the code survives, per run
MaxDeny   == 2   \* entries of the user deny list
MaxAllow  == 1   \* entries of the user allow list

(***************************************************************************)
(* errno values the code names.                                            *)
(***************************************************************************)
ENOENT == 2
EBUSY  == 16
EEXIST == 17
EINVAL == 22

\* A value not yet there (no return value yet, process still running) is the
\* empty sequence; a value v that is there is <<v>>.
None == << >>
Some(v) == << v >>

Range(s) == { s[i] : i \in 1..Len(s) }

(***************************************************************************)
(* seccomp.c: the default denylist and the filter construction.            *)
(***************************************************************************)
docker_default_denylist ==
  << "create_module", "init_module", "finit_module", "delete_module",
     "kexec_load", "kexec_file_load",
     "add_key", "request_key", "keyctl",
     "bpf",
     "ptrace", "process_vm_readv", "process_vm_writev",
     "adjtimex", "clock_adjtime", "settimeofday", "stime",
     "reboot", "quotactl", "nfsservctl", "sysfs", "_sysctl",
     "personality",
     "mount", "umount", "umount2", "pivot_root",
     "setns", "unshare",
     "open_by_handle_at",
     "perf_event_open", "fanotify_init",
     "name_to_handle_at", "lookup_dcookie",
     "userfaultfd", "vm86", "vm86old", "iopl", "ioperm",
     "set_mempolicy", "move_pages",
     "kcmp",
     "acct", "clone3" >>

docker_default_denylist_len == Len(docker_default_denylist)

\* seccomp_syscall_resolve_name: the syscall table of the architecture.  A name
\* resolves to its position in the table; any other name gives __NR_SCMP_ERROR.
\* The table is that of a 64-bit build: the default denylist without the names
\* that exist on 32-bit x86 only, plus two syscalls outside the denylist.
NR_SCMP_ERROR == -1

NotOnThisArch == { "umount", "stime", "vm86", "vm86old" }

SyscallTable ==
  SelectSeq(docker_default_denylist, LAMBDA n : n \notin NotOnThisArch)
    \o << "socket", "execve" >>

seccomp_syscall_resolve_name(name) ==
  IF \E i \in 1..Len(SyscallTable) : SyscallTable[i] = name
  THEN CHOOSE i \in 1..Len(SyscallTable) : SyscallTable[i] = name
  ELSE NR_SCMP_ERROR

\* name_in_list: strcmp against every non-NULL entry.
name_in_list(name, list) == \E i \in 1..Len(list) : list[i] = name

\* A merge that forgets the user's allow list.
merge_syscall_lists_no_override(o) ==
  IF Len(o.syscalls_deny) = 0 /\ Len(o.syscalls_allow) = 0
  THEN [deny |-> docker_default_denylist, allow |-> << >>]
  ELSE [deny |-> docker_default_denylist \o o.syscalls_deny, allow |-> << >>]

\* merge_syscall_lists: [deny, allow] as handed to microbox_setup_seccomp.
\* A NULL allowlist is the empty sequence.
merge_syscall_lists(o) ==
  IF Len(o.syscalls_deny) = 0 /\ Len(o.syscalls_allow) = 0
  THEN [deny |-> docker_default_denylist, allow |-> << >>]
  ELSE [deny |-> docker_default_denylist \o o.syscalls_deny,
        allow |-> o.syscalls_allow]

\* One iteration of the loop of microbox_setup_seccomp: the syscall numbers
\* given an ENOSYS rule for one entry of the deny list (none or one).
seccomp_rule_add(name, allow) ==
  IF name = "" THEN {}
  ELSE IF name_in_list(name, allow) THEN {}
  ELSE IF seccomp_syscall_resolve_name(name) = NR_SCMP_ERROR THEN {}
  ELSE { seccomp_syscall_resolve_name(name) }

\* microbox_setup_seccomp: the loop over every entry of deny, then
\* seccomp_load.  The filter allows by default; "rules" are the syscall
\* numbers that fail with ENOSYS.
microbox_setup_seccomp(deny, allow) ==
  [loaded |-> TRUE,
   rules |-> UNION { seccomp_rule_add(deny[i], allow) : i \in 1..Len(deny) }]

(***************************************************************************)
(* The child's code as a program.  A step is one call; "outs" are the      *)
(* outcomes the call can have, "fail" says what the code does when the     *)
(* call fails: "exit127" (_exit(127), directly or through the negative     *)
(* return of the enclosing function), "exit1" (exit(EXIT_FAILURE)), or     *)
(* "skip": the failure is not acted upon and the "skip" steps that follow  *)
(* in the same function are left out.  Outcome "tolerated" is a failure with *)
(* an errno the code absorbs (EEXIST, EINVAL); the code carries on.        *)
(* Outcome "crash" is the process killed by SIGSEGV.                       *)
(* Every failing system call leaves errno non-zero, so each "return        *)
(* (-errno)" of fs.c is negative and caught by the "< 0" test of its       *)
(* caller.                                                                 *)
(***************************************************************************)
St(phase, fn, op, arg) ==
  [phase |-> phase, fn |-> fn, op |-> op, arg |-> arg,
   outs |-> {"ok", "fail"}, fail |-> "exit127", skip |-> 0]

Tolerating(s) == [s EXCEPT !.outs = {"ok", "tolerated", "fail"}]
Infallible(s) == [s EXCEPT !.outs = {"ok"}]
OnFail(s, f)  == [s EXCEPT !.fail = f]
Skipping(s, k) == [s EXCEPT !.fail = "skip", !.skip = k]
Crashing(s)   == [s EXCEPT !.outs = @ \cup {"crash"}]

\* fs.c: the device allowlist bind-mounted into the new /dev.
dev_dirs == << "/dev/null", "/dev/zero", "/dev/random", "/dev/urandom", "/dev/tty" >>

\* microbox_bind_mount(base, spec) as its caller sees it: one call that binds
\* spec.host onto base+dest (read-only when asked) and returns 0, or mounts
\* nothing usable and returns -1.
microbox_bind_mount(phase, base, spec) ==
  << St(phase, "microbox_bind_mount", "bind_mount", base \o spec.dest) >>

\* A call whose return value is not looked at: a failing step ends the call,
\* and the caller carries on.
Unchecked(steps) ==
  [i \in 1..Len(steps) |-> Skipping(steps[i], Len(steps) - i)]

\* microsandbox_create_tmpfs(path): mkdir_safe (EEXIST absorbed), mount tmpfs.
microsandbox_create_tmpfs(phase, path) ==
  << Tolerating(St(phase, "microsandbox_create_tmpfs", "mkdir_safe", path)),
     St(phase, "microsandbox_create_tmpfs", "mount_tmpfs", path) >>

\* microsandbox_create_overlayfs(src, mountpoint).
microsandbox_create_overlayfs(phase, src, mountpoint) ==
  LET f == "microsandbox_create_overlayfs"
  IN  << St(phase, f, "calloc", "overlayfs_t"),
         St(phase, f, "open", mountpoint),
         St(phase, f, "mkdirat", mountpoint \o "/upper"),
         St(phase, f, "mkdirat", mountpoint \o "/work"),
         St(phase, f, "mkdirat", mountpoint \o "/merged"),
         St(phase, f, "mount_overlay", mountpoint \o "/merged") >>

\* microbox_bind_mount_proc(base).
microbox_bind_mount_proc(phase, base) ==
  << St(phase, "microbox_bind_mount_proc", "mkdirp", base \o "/proc"),
     St(phase, "microbox_bind_mount_proc", "mount_proc", base \o "/proc") >>

\* The loop of microbox_bind_mount_dev over dev_dirs[from..]: the return value
\* of each microbox_bind_mount is dropped.
RECURSIVE bind_mount_dev_allowlist(_, _, _)
bind_mount_dev_allowlist(phase, base, from) ==
  IF from > Len(dev_dirs) THEN << >>
  ELSE Unchecked(microbox_bind_mount(phase, base,
                   [host |-> dev_dirs[from], dest |-> dev_dirs[from],
                    mode |-> "MNT_RW"]))
       \o bind_mount_dev_allowlist(phase, base, from + 1)

\* microbox_bind_mount_dev(base): tmpfs on /dev, devpts (EINVAL absorbed),
\* the ptmx symlink, tmpfs on /dev/shm, then the device allowlist.
microbox_bind_mount_dev(phase, base) ==
  LET f == "microbox_bind_mount_dev"
  IN  << St(phase, f, "mkdirp", base \o "/dev"),
         St(phase, f, "mount_tmpfs", base \o "/dev"),
         St(phase, f, "mkdirp", base \o "/dev/pts"),
         Tolerating(St(phase, f, "mount_devpts", base \o "/dev/pts")),
         Infallible(St(phase, f, "unlink", base \o "/dev/ptmx")),
         St(phase, f, "symlink", base \o "/dev/ptmx"),
         St(phase, f, "mkdirp", base \o "/dev/shm"),
         St(phase, f, "mount_tmpfs", base \o "/dev/shm") >>
      \o bind_mount_dev_allowlist(phase, base, 1)

\* The loops over opts->mounts[from..].
RECURSIVE user_bind_mounts(_, _, _, _)
user_bind_mounts(phase, base, mounts, from) ==
  IF from > Len(mounts) THEN << >>
  ELSE microbox_bind_mount(phase, base, mounts[from])
       \o user_bind_mounts(phase, base, mounts, from + 1)

\* A tail that leaves the old root mounted under the new one.
pivot_into_old_root_kept(phase, f, newroot) ==
  << St(phase, f, "chdir", newroot),
     St(phase, f, "mkdir", ".old_root"),
     St(phase, f, "pivot_root", newroot),
     St(phase, f, "chdir", "/") >>

\* The tail shared by both builders: enter the new root, pivot, drop the old root.
pivot_into(phase, f, newroot) ==
  << St(phase, f, "chdir", newroot),
     St(phase, f, "mkdir", ".old_root"),
     St(phase, f, "pivot_root", newroot),
     St(phase, f, "chdir", "/"),
     St(phase, f, "umount2", "/.old_root"),
     St(phase, f, "rmdir", "/.old_root") >>

\* microsandbox_setup_rootfs(opts).
microsandbox_setup_rootfs(o) ==
  LET f      == "microsandbox_setup_rootfs"
      merged == "/box/overlay/merged"
  IN  << St("fs", f, "mount_private", "/"),
         St("fs", f, "is_directory", "rootfs") >>
      \o microsandbox_create_tmpfs("fs", "/box")
      \o << St("fs", f, "mkdir", "/box/overlay") >>
      \o microsandbox_create_overlayfs("fs", "rootfs", "/box/overlay")
      \o user_bind_mounts("fs", merged, o.mounts, 1)
      \o (IF o.mount_proc THEN microbox_bind_mount_proc("fs", merged) ELSE << >>)
      \o (IF o.mount_dev THEN microbox_bind_mount_dev("fs", merged) ELSE << >>)
      \o pivot_into("fs", f, merged)

\* microsandbox_setup_tmpfs(opts).
microsandbox_setup_tmpfs(o) ==
  LET f == "microsandbox_setup_tmpfs"
  IN  << St("fs", f, "mount_private", "/") >>
      \o microsandbox_create_tmpfs("fs", "/box")
      \o (IF o.mount_proc THEN microbox_bind_mount_proc("fs", "/box") ELSE << >>)
      \o (IF o.mount_dev THEN microbox_bind_mount_dev("fs", "/box") ELSE << >>)
      \o user_bind_mounts("fs", "/box", o.mounts, 1)
      \o pivot_into("fs", f, "/box")

\* microsandbox_setup_fs(opts): the switch on fs_mode.  The call itself is a
\* step, so that FS_HOST, which does nothing, still shows in the trace.
microsandbox_setup_fs(o) ==
  << Infallible(St("fs", "microsandbox_setup_fs", "switch", o.fs_mode)) >>
  \o (CASE o.fs_mode = "FS_HOST"   -> << >>
        [] o.fs_mode = "FS_TMPFS"  -> microsandbox_setup_tmpfs(o)
        [] o.fs_mode = "FS_ROOTFS" -> microsandbox_setup_rootfs(o))

\* microbox_configure_container_network(config), netns.c.
microbox_configure_container_network ==
  LET f == "microbox_configure_container_network"
  IN  << Infallible(St("net", f, "usleep", "200ms")),
         St("net", f, "popen_find_interface", "mbx*c"),
         St("net", f, "netlink_open", ""),
         St("net", f, "netlink_add_ip_address", "container_ip"),
         St("net", f, "netlink_set_interface_up", "veth"),
         St("net", f, "netlink_set_interface_up", "lo"),
         St("net", f, "netlink_add_default_route", "bridge_ip") >>

\* A child that loads the seccomp filter before it builds its root and its
\* network.
ChildProgram_seccomp_early(o) ==
  LET f == "microbox_sandbox_spawn"
  IN  (IF o.hostname THEN << St("hostname", f, "sethostname", "hostname") >> ELSE << >>)
      \o << IF Len(o.syscalls_deny) = 0 /\ Len(o.syscalls_allow) = 0
            THEN Infallible(St("merge_syscalls", "merge_syscall_lists", "default", ""))
            ELSE OnFail(St("merge_syscalls", "merge_syscall_lists", "xcalloc", ""), "exit1"),
            St("seccomp", "microbox_setup_seccomp", "seccomp_load", "") >>
      \o microsandbox_setup_fs(o)
      \o (IF o.net_mode = "NET_BRIDGE"
          THEN << Infallible(St("net", f, "generate_interface_names", "getppid")) >>
               \o microbox_configure_container_network
          ELSE << >>)
      \o << IF Len(o.env) > 0
            THEN Crashing(Skipping(St("env", "merge", "merge", ""), 0))
            ELSE Infallible(St("env", f, "safe_env", "")),
            Skipping(St("env", "flatten_env", "flatten_env", ""), 0),
            St("execve", f, "execve", "cmd") >>

\* The child branch of microbox_sandbox_spawn after WAIT_FOR_PARENT.
\* merge_syscall_lists can fail only in xcalloc, which it calls when a user
\* list is given, and which ends the process with exit(EXIT_FAILURE).
\* merge() and flatten_env() return NULL on failure; the result is used
\* without a test.  merge() counts the entries of opts->env up to a NULL
\* name, which cli_parse_options does not store: it reads past the end of
\* the array, and goes well, fails or crashes.
ChildProgram(o) ==
  LET f == "microbox_sandbox_spawn"
  IN  (IF o.hostname THEN << St("hostname", f, "sethostname", "hostname") >> ELSE << >>)
      \o microsandbox_setup_fs(o)
      \o (IF o.net_mode = "NET_BRIDGE"
          THEN << Infallible(St("net", f, "generate_interface_names", "getppid")) >>
               \o microbox_configure_container_network
          ELSE << >>)
      \o << IF Len(o.syscalls_deny) = 0 /\ Len(o.syscalls_allow) = 0
            THEN Infallible(St("merge_syscalls", "merge_syscall_lists", "default", ""))
            ELSE OnFail(St("merge_syscalls", "merge_syscall_lists", "xcalloc", ""), "exit1"),
            St("seccomp", "microbox_setup_seccomp", "seccomp_load", ""),
            IF Len(o.env) > 0
            THEN Crashing(Skipping(St("env", "merge", "merge", ""), 0))
            ELSE Infallible(St("env", f, "safe_env", "")),
            Skipping(St("env", "flatten_env", "flatten_env", ""), 0),
            St("execve", f, "execve", "cmd") >>

(***************************************************************************)
(* Inputs.                                                                 *)
(***************************************************************************)
RECURSIVE SeqsUpTo(_, _)
SeqsUpTo(S, n) ==
  IF n = 0 THEN { << >> }
  ELSE LET shorter == SeqsUpTo(S, n - 1)
       IN  shorter \cup { Append(q, x) : q \in { t \in shorter : Len(t) = n - 1 }, x \in S }

\* The user bind mounts as cli_parse_options builds them: the --mount-ro ones
\* first, then the --mount-rw ones.  UserMounts(n) is n of them, one read-only
\* when n > 1.  The first has its dest at the top of the new root, the others
\* under /dev.
UserMount(mode, i) ==
  [host |-> "/srv", dest |-> IF i = 1 THEN "/data1" ELSE "/dev/dataN", mode |-> mode]

UserMounts(n) ==
  [i \in 1..n |-> UserMount(IF i = 1 /\ n > 1 THEN "MNT_RO" ELSE "MNT_RW", i)]

\* Names a user can put in a syscall list: one of the default denylist, one
\* outside it, one no architecture knows, and "".
SyscallNames == { "mount", "socket", "bogus", "" }

FsModes  == { "FS_TMPFS", "FS_HOST", "FS_ROOTFS" }

\* NET_NONE stands for the three modes spawn does not tell apart from one
\* another after clone3 (NET_NONE, NET_HOST, NET_PRIVATE): the code tests for
\* NET_BRIDGE only.
NetModes == { "NET_NONE", "NET_BRIDGE" }

\* The options cli_parse_options returns for a command line with a command and
\* no other argument: hostname is never NULL (it defaults to "microbox").
DefaultOptions ==
  [ fs_mode |-> "FS_TMPFS", net_mode |-> "NET_NONE", hostname |-> TRUE,
    cpus |-> 0, memory |-> 0, mounts |-> << >>,
    mount_proc |-> FALSE, mount_dev |-> FALSE, env |-> << >>,
    syscalls_deny |-> << >>, syscalls_allow |-> << >> ]

\* The options only the parent reads (net_mode, cpus, memory), varied.
ParentOptions ==
  { [DefaultOptions EXCEPT !.net_mode = n, !.cpus = c, !.memory = m] :
      n \in NetModes, c \in {0, 1}, m \in {0, 1024} }

\* The options the child reads to build its root, network and environment,
\* varied.  cli_parse_options refuses FS_HOST with mounts.
ChildOptions ==
  { o \in [ fs_mode : FsModes, net_mode : NetModes, hostname : {TRUE},
            cpus : {0}, memory : {0},
            mounts : { UserMounts(n) : n \in 0..MaxMounts },
            mount_proc : BOOLEAN, mount_dev : BOOLEAN,
            env : { << >>, << [name |-> "TERM", value |-> "vt100"] >> },
            syscalls_deny : { << >>, << "socket" >> },
            syscalls_allow : { << >> } ] :
      o.fs_mode = "FS_HOST" => o.mounts = << >> }

\* The two syscall lists, varied.
SeccompOptions ==
  { [DefaultOptions EXCEPT !.fs_mode = "FS_HOST",
                           !.syscalls_deny = d, !.syscalls_allow = a] :
      d \in SeqsUpTo(SyscallNames, MaxDeny), a \in SeqsUpTo(SyscallNames, MaxAllow) }

InitRest ==
  /\ ppc = "spawn"
  /\ ret = None
  /\ pstatus = None
  /\ ptrace = << >>
  /\ pipe = 0
  /\ rd = {}
  /\ wr = {}
  /\ cpc = "none"
  /\ cidx = 1
  /\ ctrace = << >>
  /\ cexit = None
  /\ filter = [loaded |-> FALSE, rules |-> {}]
  /\ faults = 0
  /\ host = << >>
  /\ boxes = << >>
  /\ cgroupfs = << >>
  /\ frame = << >>

\* main calls microbox_sandbox_spawn with the parsed options.  errno is
\* whatever the calls made so far have left in it.
Init ==
  /\ \/ opts \in ParentOptions /\ errno \in {0, EINVAL}
     \/ opts \in ChildOptions /\ errno = 0
  /\ prog = ChildProgram(opts)
  /\ InitRest

(***************************************************************************)
(* The parent: main and the parent branch of microbox_sandbox_spawn.       *)
(***************************************************************************)
\* A process that ends closes every descriptor it holds.
CloseAll(p) ==
  /\ rd' = rd \ {p}
  /\ wr' = wr \ {p}

\* microbox_sandbox_spawn returns v to main, and main goes on:
\* exit(EXIT_FAILURE) when v is negative, microbox_sandbox_wait otherwise.
main_after_spawn(v) == IF v < 0 THEN "exited" ELSE "wait"

\* r and w are the holders of the pipe ends at the return.
ReturnWith(v, r, w) ==
  /\ ret' = Some(v)
  /\ ppc' = main_after_spawn(v)
  /\ pstatus' = IF main_after_spawn(v) = "exited" THEN Some(1) ELSE pstatus
  /\ rd' = IF main_after_spawn(v) = "exited" THEN r \ {"parent"} ELSE r
  /\ wr' = IF main_after_spawn(v) = "exited" THEN w \ {"parent"} ELSE w

Return(v) == ReturnWith(v, rd, wr)

Did(op, res) == ptrace' = Append(ptrace, [op |-> op, res |-> res])

\* An order in which the child's pid is moved into the cgroup before the
\* limit files are written.
ParentAfter_procs_first(pc, o) ==
  CASE pc = "clone3"        -> "setgroups"
    [] pc = "setgroups"     -> "uid_map"
    [] pc = "uid_map"       -> "gid_map"
    [] pc = "gid_map"       -> IF o.net_mode = "NET_BRIDGE" THEN "bridge_getuid"
                               ELSE "cg_subtree"
    [] pc = "bridge_getuid" -> "bridge_setup"
    [] pc = "bridge_setup"  -> "move_veth"
    [] pc = "move_veth"     -> "cg_subtree"
    [] pc = "cg_subtree"    -> "cg_mkdir"
    [] pc = "cg_mkdir"      -> "cg_procs"
    [] pc = "cg_procs"      -> "cg_cpu"
    [] pc = "cg_cpu"        -> "cg_memory"
    [] pc = "cg_memory"     -> "cg_swap"
    [] pc = "cg_swap"       -> "signal"

\* The order of the parent's steps after clone3 (sandbox.c 484-527).
ParentAfter(pc, o) ==
  CASE pc = "clone3"        -> "setgroups"
    [] pc = "setgroups"     -> "uid_map"
    [] pc = "uid_map"       -> "gid_map"
    [] pc = "gid_map"       -> IF o.net_mode = "NET_BRIDGE" THEN "bridge_getuid"
                               ELSE "cg_subtree"
    [] pc = "bridge_getuid" -> "bridge_setup"
    [] pc = "bridge_setup"  -> "move_veth"
    [] pc = "move_veth"     -> "cg_subtree"
    [] pc = "cg_subtree"    -> "cg_mkdir"
    [] pc = "cg_mkdir"      -> "cg_cpu"
    [] pc = "cg_cpu"        -> "cg_memory"
    [] pc = "cg_memory"     -> "cg_swap"
    [] pc = "cg_swap"       -> "cg_procs"
    [] pc = "cg_procs"      -> "signal"

\* The parent goes on with its next step.
Goto ==
  /\ ppc' = ParentAfter(ppc, opts)
  /\ UNCHANGED <<ret, pstatus, rd, wr>>

\* MAKE_PIPE: pipe(); on failure _exit(127).
MAKE_PIPE ==
  /\ ppc = "spawn"
  /\ \/ /\ rd' = {"parent"}
        /\ wr' = {"parent"}
        /\ ppc' = "clone3"
        /\ UNCHANGED <<errno, pstatus>>
     \/ /\ errno' = EINVAL
        /\ ppc' = "exited"
        /\ pstatus' = Some(127)
        /\ UNCHANGED <<rd, wr>>
  /\ UNCHANGED <<hvars, opts, prog, ret, ptrace, pipe, cvars, faults>>

\* A child that closes its copy of the write end before it reads.
ChildPipeEnds_write_end_closed == [rd |-> {"child"}, wr |-> {}]

\* The descriptors of the barrier pipe the child holds after clone3: it gets a
\* copy of both ends and the code closes none before the read.
ChildPipeEnds == [rd |-> {"child"}, wr |-> {"child"}]

\* clone3: the child starts at WAIT_FOR_PARENT with a copy of both pipe ends;
\* on failure both ends are closed and -errno is returned.
clone3 ==
  /\ ppc = "clone3"
  /\ \/ /\ cpc' = "barrier"
        /\ rd' = rd \cup ChildPipeEnds.rd
        /\ wr' = wr \cup ChildPipeEnds.wr
        /\ ppc' = ParentAfter(ppc, opts)
        /\ UNCHANGED <<errno, ret, pstatus>>
     \/ /\ errno' = EINVAL
        /\ ReturnWith(-errno', rd \ {"parent"}, wr \ {"parent"})
        /\ UNCHANGED cpc
  /\ UNCHANGED <<hvars, opts, prog, ptrace, pipe, cidx, ctrace, cexit, filter, faults>>

\* write_file(path, data): 0, or -errno when open fails or write does not write
\* everything.  A short write leaves errno as it was.
FileOutcomes == { "ok", "open_fail", "write_fail", "short" }

ErrnoAfter(out, e) ==
  CASE out = "open_fail"  -> ENOENT
    [] out = "write_fail" -> EINVAL
    [] OTHER              -> e

write_file(out, e) == IF out = "ok" THEN 0 ELSE -ErrnoAfter(out, e)

\* setup_uid_gid_map, first write: write_file("/proc/<pid>/setgroups", "deny"),
\* failing when the result is < 0; spawn then returns -errno.
setup_uid_gid_map_setgroups ==
  /\ ppc = "setgroups"
  /\ \E out \in FileOutcomes :
       /\ errno' = ErrnoAfter(out, errno)
       /\ Did("setgroups", out)
       /\ IF write_file(out, errno) < 0
          THEN /\ Return(-errno')
               /\ UNCHANGED faults
          ELSE /\ Goto
               /\ IF out = "ok" THEN UNCHANGED faults
                  ELSE /\ faults < MaxFaults
                       /\ faults' = faults + 1
  /\ UNCHANGED <<hvars, opts, prog, pipe, cvars>>

\* setup_uid_gid_map, second and third write: open and write inline; anything
\* but a full write returns -1, and spawn then returns -errno.
MapWrite(pc, op) ==
  /\ ppc = pc
  /\ \E out \in FileOutcomes :
       /\ errno' = ErrnoAfter(out, errno)
       /\ Did(op, out)
       /\ IF out = "ok" THEN Goto ELSE Return(-errno')
  /\ UNCHANGED <<hvars, opts, prog, pipe, cvars, faults>>

setup_uid_gid_map_uid_map == MapWrite("uid_map", "uid_map")
setup_uid_gid_map_gid_map == MapWrite("gid_map", "gid_map")

\* A step of the bridge block of spawn: on failure spawn returns -1.
BridgeStep(pc, op) ==
  /\ ppc = pc
  /\ \/ /\ Did(op, "ok")
        /\ Goto
        /\ UNCHANGED errno
     \/ /\ Did(op, "fail")
        /\ Return(-1)
        /\ errno' = IF op = "getuid" THEN errno ELSE EINVAL
  /\ UNCHANGED <<hvars, opts, prog, pipe, cvars, faults>>

bridge_getuid == BridgeStep("bridge_getuid", "getuid")
microbox_setup_bridge_network == BridgeStep("bridge_setup", "microbox_setup_bridge_network")
move_veth_to_container == BridgeStep("move_veth", "move_veth_to_container")

\* setup_cgroup_limits, a step that the code absorbs a failure of:
\* cgroup.subtree_control (open failure skipped, EBUSY ignored) and
\* mkdir_safe (EEXIST ignored).  Any other failure returns -errno.
CgroupTolerant(pc, op, absorbed) ==
  /\ ppc = pc
  /\ \/ /\ Did(op, "ok")
        /\ Goto
        /\ UNCHANGED <<errno, faults>>
     \/ /\ faults < MaxFaults
        /\ faults' = faults + 1
        /\ errno' = absorbed
        /\ Did(op, "tolerated")
        /\ Goto
     \/ /\ errno' = EINVAL
        /\ Did(op, "fail")
        /\ Return(-errno')
        /\ UNCHANGED faults
  /\ UNCHANGED <<hvars, opts, prog, pipe, cvars>>

setup_cgroup_limits_subtree_control == CgroupTolerant("cg_subtree", "cgroup.subtree_control", EBUSY)
setup_cgroup_limits_mkdir == CgroupTolerant("cg_mkdir", "mkdir_cgroup", EEXIST)

\* setup_cgroup_limits, a file written when "wanted": open, write; a failure
\* of either (write() < 0) returns -errno.  A short write is not a failure
\* for this code and counts as "ok".
CgroupWrite(pc, op, wanted) ==
  /\ ppc = pc
  /\ IF wanted
     THEN \/ /\ Did(op, "ok")
             /\ Goto
             /\ UNCHANGED errno
          \/ /\ errno' = EINVAL
             /\ Did(op, "fail")
             /\ Return(-errno')
     ELSE /\ Goto
          /\ UNCHANGED <<errno, ptrace>>
  /\ UNCHANGED <<hvars, opts, prog, pipe, cvars, faults>>

setup_cgroup_limits_cpu_max == CgroupWrite("cg_cpu", "cpu.max", opts.cpus > 0)
setup_cgroup_limits_memory_max == CgroupWrite("cg_memory", "memory.max", opts.memory > 0)
setup_cgroup_limits_memory_swap_max == CgroupWrite("cg_swap", "memory.swap.max", opts.memory > 0)
setup_cgroup_limits_cgroup_procs == CgroupWrite("cg_procs", "cgroup.procs", TRUE)

\* SIGNAL_CHILD: write one byte and close the write end, return 0; on a failed
\* write _exit(127).
SIGNAL_CHILD ==
  /\ ppc = "signal"
  /\ \/ /\ pipe' = pipe + 1
        /\ Did("barrier_write", "ok")
        /\ ReturnWith(0, rd, wr \ {"parent"})
        /\ UNCHANGED errno
     \/ /\ errno' = EINVAL
        /\ Did("barrier_write", "fail")
        /\ ppc' = "exited"
        /\ pstatus' = Some(127)
        /\ CloseAll("parent")
        /\ UNCHANGED <<ret, pipe>>
  /\ UNCHANGED <<hvars, opts, prog, cvars, faults>>

\* microbox_sandbox_wait: waitid blocks until the child has terminated; main
\* returns the status.  What the call does to the host's network interfaces
\* (microbox_cleanup_network_interfaces) and what it returns when waitid
\* fails are followed in SpecHost (wait).
microbox_sandbox_wait ==
  /\ ppc = "wait"
  /\ cpc = "exited"
  /\ ppc' = "exited"
  /\ pstatus' = cexit
  /\ CloseAll("parent")
  /\ UNCHANGED <<hvars, opts, prog, errno, ret, ptrace, pipe, cvars, faults>>

ParentNext ==
  \/ MAKE_PIPE
  \/ clone3
  \/ setup_uid_gid_map_setgroups
  \/ setup_uid_gid_map_uid_map
  \/ setup_uid_gid_map_gid_map
  \/ bridge_getuid
  \/ microbox_setup_bridge_network
  \/ move_veth_to_container
  \/ setup_cgroup_limits_subtree_control
  \/ setup_cgroup_limits_mkdir
  \/ setup_cgroup_limits_cpu_max
  \/ setup_cgroup_limits_memory_max
  \/ setup_cgroup_limits_memory_swap_max
  \/ setup_cgroup_limits_cgroup_procs
  \/ SIGNAL_CHILD
  \/ microbox_sandbox_wait

(***************************************************************************)
(* The child branch of microbox_sandbox_spawn.                             *)
(***************************************************************************)
\* The child ends; code is what microbox_sandbox_wait makes of it: the exit
\* status, or 128 + the signal that killed it.
ChildExit(code) ==
  /\ cpc' = "exited"
  /\ cexit' = Some(code)
  /\ rd' = rd \ {"child"}
  /\ wr' = wr \ {"child"}

\* What WAIT_FOR_PARENT does with the value n that read() returned: only n < 0
\* ends the child; 1 (the byte) and 0 (end of file) both let it go on.
WAIT_FOR_PARENT_after(n) == IF n < 0 THEN "exit127" ELSE "run"

\* WAIT_FOR_PARENT: read() returns 1 once the byte is there, 0 once the pipe is
\* empty and no process holds its write end, and blocks otherwise.  The read end
\* is closed afterwards.
WAIT_FOR_PARENT ==
  /\ cpc = "barrier"
  /\ \/ /\ pipe > 0
        /\ pipe' = pipe - 1
        /\ WAIT_FOR_PARENT_after(1) = "run"
     \/ /\ pipe = 0
        /\ wr = {}
        /\ WAIT_FOR_PARENT_after(0) = "run"
        /\ UNCHANGED pipe
  /\ cpc' = "run"
  /\ rd' = rd \ {"child"}
  /\ UNCHANGED <<hvars, opts, prog, pvars, wr, cidx, ctrace, cexit, filter, faults>>

\* WAIT_FOR_PARENT when read() fails: _exit(127).
WAIT_FOR_PARENT_read_error ==
  /\ cpc = "barrier"
  /\ WAIT_FOR_PARENT_after(-1) = "exit127"
  /\ ChildExit(127)
  /\ UNCHANGED <<hvars, opts, prog, pvars, pipe, cidx, ctrace, filter, faults>>

\* One step of the child's program, with one of its outcomes.
ChildStep ==
  /\ cpc = "run"
  /\ LET s == prog[cidx]
         lists == merge_syscall_lists(opts)
     IN  \E out \in s.outs :
           /\ ctrace' = Append(ctrace, [phase |-> s.phase, op |-> s.op,
                                        arg |-> s.arg, res |-> out])
           /\ \/ /\ out = "ok"
                 /\ filter' = IF s.op = "seccomp_load"
                              THEN microbox_setup_seccomp(lists.deny, lists.allow)
                              ELSE filter
                 /\ IF s.op = "execve"
                    THEN cpc' = "execd" /\ UNCHANGED cidx
                    ELSE cidx' = cidx + 1 /\ UNCHANGED cpc
                 /\ UNCHANGED <<cexit, rd, wr, faults>>
              \/ /\ out = "tolerated"
                 /\ faults < MaxFaults
                 /\ faults' = faults + 1
                 /\ cidx' = cidx + 1
                 /\ UNCHANGED <<cpc, cexit, rd, wr, filter>>
              \/ /\ out = "fail"
                 /\ s.fail = "skip"
                 /\ faults < MaxFaults
                 /\ faults' = faults + 1
                 /\ cidx' = cidx + 1 + s.skip
                 /\ UNCHANGED <<cpc, cexit, rd, wr, filter>>
              \/ /\ out = "fail"
                 /\ s.fail \in {"exit127", "exit1"}
                 /\ ChildExit(IF s.fail = "exit1" THEN 1 ELSE 127)
                 /\ UNCHANGED <<cidx, filter, faults>>
              \/ /\ out = "crash"
                 /\ ChildExit(128 + 11)
                 /\ UNCHANGED <<cidx, filter, faults>>
  /\ UNCHANGED <<hvars, opts, prog, pvars, pipe>>

\* The payload, once exec'd, runs and ends with some status.
PayloadExit ==
  /\ cpc = "execd"
  /\ \E code \in {0, 1} : ChildExit(code)
  /\ UNCHANGED <<hvars, opts, prog, pvars, pipe, cidx, ctrace, filter, faults>>

ChildNext ==
  \/ WAIT_FOR_PARENT
  \/ WAIT_FOR_PARENT_read_error
  \/ ChildStep
  \/ PayloadExit

Next == ParentNext \/ ChildNext

Spec == Init /\ [][Next]_vars

\* Both processes keep running: the parent takes its next step, the child its
\* next step or the return of a read that can return.  A read error is not
\* something that has to happen.
FairSpec ==
  /\ Spec
  /\ WF_vars(ParentNext)
  /\ WF_vars(WAIT_FOR_PARENT \/ ChildStep \/ PayloadExit)

(***************************************************************************)
(* The seccomp steps of the child on their own, for every pair of user     *)
(* lists: the run starts where the child, released by the parent, has      *)
(* done every step before merge_syscall_lists without a failure.           *)
(***************************************************************************)
ParentTraceOfSuccess ==
  [i \in 1..7 |->
     [op |-> << "setgroups", "uid_map", "gid_map", "cgroup.subtree_control",
                "mkdir_cgroup", "cgroup.procs", "barrier_write" >>[i],
      res |-> "ok"]]

MergeIndex(p) == CHOOSE i \in 1..Len(p) : p[i].phase = "merge_syscalls"

InitSeccomp ==
  /\ opts \in SeccompOptions
  /\ prog = ChildProgram(opts)
  /\ ppc = "wait"
  /\ errno = 0
  /\ ret = Some(0)
  /\ pstatus = None
  /\ ptrace = ParentTraceOfSuccess
  /\ pipe = 0
  /\ rd = {}
  /\ wr = {"child"}
  /\ cpc = "run"
  /\ cidx = MergeIndex(prog)
  /\ ctrace = [i \in 1..(MergeIndex(prog) - 1) |->
                 [phase |-> prog[i].phase, op |-> prog[i].op,
                  arg |-> prog[i].arg, res |-> "ok"]]
  /\ cexit = None
  /\ filter = [loaded |-> FALSE, rules |-> {}]
  /\ faults = 0
  /\ host = << >>
  /\ boxes = << >>
  /\ cgroupfs = << >>
  /\ frame = << >>

NextSeccomp == ChildStep \/ PayloadExit \/ microbox_sandbox_wait

SpecSeccomp == InitSeccomp /\ [][NextSeccomp]_vars

(***************************************************************************)
(* Properties.  ptrace and ctrace are the calls the parent and the child   *)
(* have made so far, with their outcomes.                                  *)
(***************************************************************************)
Performed(op) == \E i \in 1..Len(ptrace) : ptrace[i].op = op

Succeeded(op) == \E i \in 1..Len(ptrace) : ptrace[i] = [op |-> op, res |-> "ok"]

Absorbed(op) == \E i \in 1..Len(ptrace) : ptrace[i] = [op |-> op, res |-> "tolerated"]

\* The child is past the barrier: released, or with a step made.
ChildActed == cpc = "run" \/ Len(ctrace) > 0

ParentFailedBeforeBarrier ==
  /\ cpc # "none"
  /\ ppc = "exited"
  /\ ~ Succeeded("barrier_write")

\* C2: when a parent step fails before the barrier byte is written, the child
\* ends without making a post-barrier step: it is not left blocked at the
\* barrier.
C2_ChildEndsWhenParentFails ==
  ParentFailedBeforeBarrier ~> (cpc = "exited" /\ ctrace = << >>)

\* A parent step failed: clone3, or a call that did not do all it was for.
ParentStepFailed ==
  \/ cpc = "none"
  \/ \E i \in 1..Len(ptrace) : ptrace[i].res \notin {"ok", "tolerated"}

\* C3: once microbox_sandbox_spawn has returned, its value is negative when
\* clone3, the identity mapping, the bridge setup, the interface move or the
\* cgroup setup failed, and main has then exited with a non-zero status
\* without waiting; it is 0 only when the barrier byte was written.
C3_SpawnFailureIsNegative ==
  ret # None =>
    IF ParentStepFailed
    THEN ret[1] < 0 /\ ppc = "exited" /\ pstatus # None /\ pstatus # Some(0)
    ELSE ret[1] = 0 /\ Succeeded("barrier_write")

\* The steps of the child after the barrier, in the order the specification
\* gives them.
ChildPhases ==
  << "hostname", "fs", "net", "merge_syscalls", "seccomp", "env", "execve" >>

PhaseIndex(ph) == CHOOSE k \in 1..Len(ChildPhases) : ChildPhases[k] = ph

PhaseWanted(ph, o) == ph = "net" => o.net_mode = "NET_BRIDGE"

\* A call went well, or failed in a way the specification has the program
\* absorb (EEXIST on mkdir, EBUSY on the controllers, EINVAL on devpts).
WentWell(res) == res \in {"ok", "tolerated"}

\* C4: the child's calls come step by step in the order hostname, filesystem,
\* network (bridge mode only), syscall lists, seccomp, environment, execve:
\* no call of an earlier step after one of a later step, no wanted step left
\* out, and no call of a step after a failed call of an earlier step.
C4_ChildStepOrder ==
  \A j \in 1..Len(ctrace) :
    /\ PhaseWanted(ctrace[j].phase, opts)
    /\ \A i \in 1..(j - 1) :
         /\ PhaseIndex(ctrace[i].phase) <= PhaseIndex(ctrace[j].phase)
         /\ ctrace[i].phase # ctrace[j].phase => WentWell(ctrace[i].res)
    /\ \A k \in 1..(PhaseIndex(ctrace[j].phase) - 1) :
         PhaseWanted(ChildPhases[k], opts) =>
           \E i \in 1..(j - 1) : ctrace[i].phase = ChildPhases[k]

\* The calls of the parent after clone3, in the order the specification
\* gives them.
ParentOps ==
  << "setgroups", "uid_map", "gid_map",
     "getuid", "microbox_setup_bridge_network", "move_veth_to_container",
     "cgroup.subtree_control", "mkdir_cgroup", "cpu.max", "memory.max",
     "memory.swap.max", "cgroup.procs", "barrier_write" >>

OpIndex(op) == CHOOSE k \in 1..Len(ParentOps) : ParentOps[k] = op

OpWanted(op, o) ==
  CASE op \in {"getuid", "microbox_setup_bridge_network", "move_veth_to_container"}
         -> o.net_mode = "NET_BRIDGE"
    [] op = "cpu.max" -> o.cpus > 0
    [] op \in {"memory.max", "memory.swap.max"} -> o.memory > 0
    [] OTHER -> TRUE

\* C5: the parent's calls after clone3 come in the order setgroups, uid_map,
\* gid_map, (bridge mode only) bridge setup and veth move, cgroup setup ending
\* with cgroup.procs, barrier byte; none is left out or made twice, each is
\* made only when every call before it went well, and at most one barrier
\* byte is written.
C5_ParentStepOrder ==
  /\ pipe <= 1
  /\ \A j \in 1..Len(ptrace) :
       /\ OpWanted(ptrace[j].op, opts)
       /\ \A i \in 1..(j - 1) :
            /\ OpIndex(ptrace[i].op) < OpIndex(ptrace[j].op)
            /\ WentWell(ptrace[i].res)
       /\ \A k \in 1..(OpIndex(ptrace[j].op) - 1) :
            OpWanted(ParentOps[k], opts) =>
              \E i \in 1..(j - 1) : ptrace[i].op = ParentOps[k]

\* C6: a failed call of the child is its last call, and the child has then
\* ended with exit code 127; so has a child whose barrier read failed.
C6_ChildFailureExits127 ==
  /\ \A i \in 1..Len(ctrace) :
       ~ WentWell(ctrace[i].res) =>
         /\ i = Len(ctrace)
         /\ cpc = "exited"
         /\ cexit = Some(127)
  /\ (cpc = "exited" /\ ctrace = << >>) => cexit = Some(127)

\* The directory that becomes the root.
NewRoot(o) == IF o.fs_mode = "FS_ROOTFS" THEN "/box/overlay/merged" ELSE "/box"

\* The calls that mount something.
MountOps ==
  { "mount_private", "mount_tmpfs", "mount_overlay", "mount_proc",
    "mount_devpts", "bind_mount" }

\* What has to be in place before pivot_root: <<call, target>> pairs.
BeforePivot(o) ==
  { << "mount_private", "/" >>, << "mount_tmpfs", "/box" >>,
    << "chdir", NewRoot(o) >>, << "mkdir", ".old_root" >> }
  \cup (IF o.fs_mode = "FS_ROOTFS"
        THEN { << "mount_overlay", NewRoot(o) >> } ELSE {})
  \cup (IF o.mount_proc
        THEN { << "mount_proc", NewRoot(o) \o "/proc" >> } ELSE {})
  \cup (IF o.mount_dev
        THEN { << "mount_tmpfs", NewRoot(o) \o "/dev" >>,
               << "mount_devpts", NewRoot(o) \o "/dev/pts" >>,
               << "mount_tmpfs", NewRoot(o) \o "/dev/shm" >> }
             \cup { << "bind_mount", NewRoot(o) \o dev_dirs[d] >> :
                      d \in 1..Len(dev_dirs) }
        ELSE {})
  \cup { << "bind_mount", NewRoot(o) \o o.mounts[m].dest >> : m \in 1..Len(o.mounts) }

WentWellBefore(k, call) ==
  \E i \in 1..(k - 1) :
    /\ ctrace[i].op = call[1]
    /\ ctrace[i].arg = call[2]
    /\ WentWell(ctrace[i].res)

\* C7: when pivot_root is called, the private root, the tmpfs on /box, the
\* overlay (Rootfs), every requested mount of /proc and of /dev (the device
\* allowlist included), every user bind mount, the chdir into the new root
\* and the mkdir of .old_root have gone well; and nothing is mounted after
\* pivot_root.
C7_PivotAfterMounts ==
  \A k \in 1..Len(ctrace) :
    ctrace[k].op = "pivot_root" =>
      /\ \A call \in BeforePivot(opts) : WentWellBefore(k, call)
      /\ \A j \in (k + 1)..Len(ctrace) : ctrace[j].op \notin MountOps

ChildCalled(op) == \E i \in 1..Len(ctrace) : ctrace[i].op = op

ChildDid(op) == \E i \in 1..Len(ctrace) : ctrace[i].op = op /\ ctrace[i].res = "ok"

\* C8: in Tmpfs and Rootfs mode, once the child calls execve, pivot_root,
\* umount2 of the old root and rmdir of /.old_root have succeeded; in Host
\* mode the child mounts, pivots and unmounts nothing.
C8_ExecveInNewRoot ==
  /\ (opts.fs_mode # "FS_HOST" /\ (cpc = "execd" \/ ChildCalled("execve"))) =>
       /\ ChildDid("pivot_root")
       /\ ChildDid("umount2")
       /\ ChildDid("rmdir")
  /\ opts.fs_mode = "FS_HOST" =>
       \A i \in 1..Len(ctrace) :
         ctrace[i].op \notin MountOps \cup {"pivot_root", "umount2"}

C8_Witness_ExecInRootfs ==
  /\ cpc = "execd"
  /\ opts.fs_mode = "FS_ROOTFS"
  /\ opts.mount_dev
  /\ ChildDid("pivot_root")

\* The system call a call of the child's setup makes.
SetupSyscall(op) ==
  CASE op \in MountOps       -> "mount"
    [] op = "netlink_open"   -> "socket"
    [] OTHER                 -> op

BlockedByFilter(op) ==
  seccomp_syscall_resolve_name(SetupSyscall(op)) \in filter.rules

\* C9: when the filter is loaded, sethostname, the whole filesystem build
\* (with pivot_root and the unmount of the old root) and, in bridge mode, the
\* network configuration are done; after the load come only the environment
\* merge and execve, and no call the filter blocks.
C9_SeccompAfterSetup ==
  \A k \in 1..Len(ctrace) :
    (ctrace[k].op = "seccomp_load" /\ ctrace[k].res = "ok") =>
      /\ \A i \in 1..Len(ctrace) :
           ctrace[i].phase \in {"hostname", "fs", "net"} => i < k
      /\ opts.hostname => WentWellBefore(k, << "sethostname", "hostname" >>)
      /\ WentWellBefore(k, << "switch", opts.fs_mode >>)
      /\ opts.fs_mode # "FS_HOST" =>
           /\ WentWellBefore(k, << "pivot_root", NewRoot(opts) >>)
           /\ WentWellBefore(k, << "umount2", "/.old_root" >>)
      /\ opts.net_mode = "NET_BRIDGE" =>
           WentWellBefore(k, << "netlink_add_default_route", "bridge_ip" >>)
      /\ \A j \in (k + 1)..Len(ctrace) :
           /\ ctrace[j].phase \in {"env", "execve"}
           /\ ctrace[j].phase = "env" => ~ BlockedByFilter(ctrace[j].op)

C9_Witness_FilteredExec ==
  /\ cpc = "execd"
  /\ filter.loaded
  /\ opts.net_mode = "NET_BRIDGE"
  /\ opts.fs_mode = "FS_TMPFS"
  /\ opts.syscalls_deny = << "socket" >>

\* The names that resolve on this architecture.
Resolvable(names) ==
  { n \in names : seccomp_syscall_resolve_name(n) # NR_SCMP_ERROR }

Sandboxes == {"a", "b"}

\* Child PIDs the kernel hands out: 259 = 5 + 254.  Sandbox "a" gets the
\* lowest.
Pids == {5, 6, 259}

HostNetModes == {"NET_NONE", "NET_HOST", "NET_PRIVATE", "NET_BRIDGE"}

\* errno values waitid leaves (ECHILD, EINVAL).
WaitidErrnos == {10, EINVAL}

\* An interface name built by snprintf("%s%d%s").
IfName(pre, id, suf) == [pre |-> pre, id |-> id, suf |-> suf]

\* The address 0xAC140000 + n (172.20.0.0 + n) in dotted form, as inet_ntoa
\* prints it.
inet_ntoa(n) == << 172, 20, (n \div 256) % 256, n % 256 >>

\* A generate_interface_names that takes the container id modulo 253.
generate_interface_names_mod253(container_id) ==
  LET interface_id == container_id % 253
  IN [ veth_host      |-> IfName("mbx", interface_id, "h"),
       veth_container |-> IfName("mbx", interface_id, "c"),
       bridge_name    |-> IfName("microbox", 0, ""),
       bridge_ip      |-> inet_ntoa(1),
       container_ip   |-> inet_ntoa(interface_id + 2),
       prefix_len     |-> 16 ]

\* generate_interface_names: the NetnsConfig of a container id.
generate_interface_names(container_id) ==
  LET interface_id == container_id % 254
  IN [ veth_host      |-> IfName("mbx", interface_id, "h"),
       veth_container |-> IfName("mbx", interface_id, "c"),
       bridge_name    |-> IfName("microbox", 0, ""),
       bridge_ip      |-> inet_ntoa(1),
       container_ip   |-> inet_ntoa(interface_id + 2),
       prefix_len     |-> 16 ]

\* What getppid() returns in the child: the supervisor is outside the PID
\* namespace clone3 has created (CLONE_NEWPID is always set), so the kernel
\* reports 0.
getppid_in_child == 0

\* A host on which microbox has not run yet.
FreshHost ==
  [ links      |-> {},    \* interfaces in the host's net namespace
    addrs      |-> {},    \* [iface, ip] addresses on them
    up         |-> {},    \* interfaces that are up
    master     |-> {},    \* [iface, master] bridge memberships
    peers      |-> {},    \* <<end, end>> veth pairs
    netns      |-> {},    \* [pid, iface] interfaces in a child's net namespace
    caddrs     |-> {},    \* [pid, iface, ip] addresses on those
    ip_forward |-> 0,     \* /proc/sys/net/ipv4/ip_forward
    firewall   |-> "iptables",  \* the firewall tool installed: iptables, nft
    rules      |-> << >> ]      \* firewall rules, in the order of their chains

\* One call of a handler: what it asks of the kernel, and what the code does
\* when it fails ("return": return -1; "warn", "ignore": carry on).
Call(id, op, arg, onfail) == [id |-> id, op |-> op, arg |-> arg, onfail |-> onfail]

\* The interface at the other end of a veth pair.
PeersOf(h, name) ==
  { p[2] : p \in { q \in h.peers : q[1] = name } } \cup
  { p[1] : p \in { q \in h.peers : q[2] = name } }

\* The kernel removes interfaces gone: from every namespace, with their
\* addresses, states, memberships and pairings.
RemoveLinks(h, gone) ==
  [ h EXCEPT !.links  = @ \ gone,
             !.addrs  = { a \in @ : a.iface \notin gone },
             !.up     = @ \ gone,
             !.master = { m \in @ : m.iface \notin gone /\ m.master \notin gone },
             !.peers  = { p \in @ : p[1] \notin gone /\ p[2] \notin gone },
             !.netns  = { n \in @ : n.iface \notin gone },
             !.caddrs = { a \in @ : a.iface \notin gone } ]

Done(h) == [h |-> h, ok |-> TRUE]
Refused(h) == [h |-> h, ok |-> FALSE]

\* The firewall tools setup_nat looks for, iptables first.
FirewallTools == { "iptables", "nft" }

\* A firewall rule: its chain and the options the command gives it.  An
\* interface or a subnet the command leaves out is AnyIface, AnyNet.
AnyIface == IfName("", 0, "")
AnyNet == << >>

Rule(chain, i, o, s, ctstate, j) ==
  [chain |-> chain, i |-> i, o |-> o, s |-> s, ctstate |-> ctstate, j |-> j]

\* The subnet of the bridge: bridge_ip masked with prefix_len (16) and the
\* prefix length, as "%s/%d" prints them.
bridge_subnet(config) ==
  << config.bridge_ip[1], config.bridge_ip[2], 0, 0, config.prefix_len >>

\* The rules setup_nat adds with each tool.
masquerade_rule(tool, config) ==
  IF tool = "nft"
  THEN Rule("postrouting", AnyIface, AnyIface, bridge_subnet(config), "", "masquerade")
  ELSE Rule("POSTROUTING", AnyIface, AnyIface, bridge_subnet(config), "", "MASQUERADE")

forward_out_rule(tool, config, default_iface) ==
  IF tool = "nft"
  THEN Rule("forward", config.bridge_name, AnyIface, AnyNet, "", "accept")
  ELSE Rule("FORWARD", config.bridge_name, default_iface, AnyNet, "", "ACCEPT")

forward_in_rule(tool, config, default_iface) ==
  IF tool = "nft"
  THEN Rule("forward", AnyIface, config.bridge_name, AnyNet, "", "accept")
  ELSE Rule("FORWARD", default_iface, config.bridge_name, AnyNet,
            "ESTABLISHED,RELATED", "ACCEPT")

\* iptables -D: the first rule that is the given one, option for option, is
\* removed; none is when no rule is.
RECURSIVE iptables_D(_, _)
iptables_D(rules, r) ==
  IF rules = << >> THEN << >>
  ELSE IF Head(rules) = r THEN Tail(rules)
  ELSE << Head(rules) >> \o iptables_D(Tail(rules), r)

\* "while iptables -D ...; do :; done": until no rule is the given one.
iptables_D_all(rules, r) == SelectSeq(rules, LAMBDA x : x # r)

\* nft flush chain: every rule of the chain goes.
nft_flush_chain(rules, chain) == SelectSeq(rules, LAMBDA x : x.chain # chain)

\* cleanup_nat_rules: with nft both chains are flushed; with iptables one
\* masquerade rule is deleted, then every rule "-i bridge -j ACCEPT" and
\* every rule "-o bridge -j ACCEPT" of FORWARD.
cleanup_nat_rules(tool, rules, config) ==
  IF tool = "nft"
  THEN nft_flush_chain(nft_flush_chain(rules, "postrouting"), "forward")
  ELSE iptables_D_all(
         iptables_D_all(
           iptables_D(rules, masquerade_rule(tool, config)),
           Rule("FORWARD", config.bridge_name, AnyIface, AnyNet, "", "ACCEPT")),
         Rule("FORWARD", AnyIface, config.bridge_name, AnyNet, "", "ACCEPT"))

\* What the kernel (or the shell command) does with one call on host state h.
Kernel(h, op, arg) ==
  CASE op = "netlink_create_bridge" ->
         \* netlink.c 204-207: an existing interface of that name is success
         IF arg \in h.links THEN Done(h)
         ELSE Done([h EXCEPT !.links = @ \cup {arg}])
    [] op = "netlink_add_ip_address" ->
         \* NLM_F_CREATE | NLM_F_EXCL: EEXIST for an address already there
         IF arg.iface \notin h.links \/ arg \in h.addrs THEN Refused(h)
         ELSE Done([h EXCEPT !.addrs = @ \cup {arg}])
    [] op = "netlink_set_interface_up" ->
         IF arg \notin h.links THEN Refused(h)
         ELSE Done([h EXCEPT !.up = @ \cup {arg}])
    [] op = "ip_forward" -> Done([h EXCEPT !.ip_forward = 1])
    [] op = "cleanup_nat_rules" ->
         Done([h EXCEPT !.rules = cleanup_nat_rules(h.firewall, @, arg.config)])
    [] op = "masquerade" ->
         \* iptables -A, nft add rule: at the end of the chain
         Done([h EXCEPT !.rules = Append(@, masquerade_rule(h.firewall, arg.config))])
    [] op = "forward_out" ->
         \* iptables -I FORWARD 1: at the top; nft add rule: at the end
         Done([h EXCEPT !.rules =
                 IF h.firewall = "nft"
                 THEN Append(@, forward_out_rule("nft", arg.config, arg.iface))
                 ELSE << forward_out_rule("iptables", arg.config, arg.iface) >> \o @])
    [] op = "forward_in" ->
         Done([h EXCEPT !.rules =
                 IF h.firewall = "nft"
                 THEN Append(@, forward_in_rule("nft", arg.config, arg.iface))
                 ELSE << forward_in_rule("iptables", arg.config, arg.iface) >> \o @])
    [] op = "netlink_create_veth_pair" ->
         IF arg[1] \in h.links \/ arg[2] \in h.links THEN Refused(h)
         ELSE Done([h EXCEPT !.links = @ \cup {arg[1], arg[2]},
                             !.peers = @ \cup {arg}])
    [] op = "netlink_set_interface_master" ->
         IF arg.iface \notin h.links \/ arg.master \notin h.links THEN Refused(h)
         ELSE Done([h EXCEPT !.master = @ \cup {arg}])
    [] op = "netlink_move_interface_to_netns" ->
         IF arg.iface \notin h.links THEN Refused(h)
         ELSE Done([h EXCEPT !.links = @ \ {arg.iface},
                             !.up    = @ \ {arg.iface},
                             !.netns = @ \cup {arg}])
    [] op = "netlink_delete_interface" ->
         \* netlink.c 467-470: an interface that is not found is success
         IF arg \notin h.links THEN Done(h)
         ELSE Done(RemoveLinks(h, {arg} \cup PeersOf(h, arg)))
    [] OTHER -> Done(h)   \* getuid, netlink_open, lookups, access()

\* A handler runs its calls in order on host state h.  f is the call that
\* fails for a reason of its own (ENOMEM, EPERM, a missing tool, ...), "none"
\* when no call does; a call the kernel refuses fails as well.  The result is
\* the host state left, the handler's return value and the calls made.
RECURSIVE Run(_, _, _, _)
Run(h, calls, f, made) ==
  IF calls = << >> THEN [h |-> h, ret |-> 0, calls |-> made]
  ELSE LET c == Head(calls)
           k == IF c.id = f THEN Refused(h) ELSE Kernel(h, c.op, c.arg)
           m == Append(made, [id |-> c.id, op |-> c.op, arg |-> c.arg,
                              onfail |-> c.onfail,
                              res |-> IF k.ok THEN "ok" ELSE "fail"])
       IN IF ~k.ok /\ c.onfail = "return"
          THEN [h |-> k.h, ret |-> -1, calls |-> m]
          ELSE Run(k.h, Tail(calls), f, m)

\* setup_nat: default interface (eth0 when it is not found), ip_forward,
\* the firewall tool, then the rules.
setup_nat(config, f) ==
  LET default_iface == IF f \in {"nat.netlink_open", "netlink_get_default_interface"}
                       THEN IfName("eth", 0, "") ELSE IfName("default", 0, "")
  IN (IF f = "nat.netlink_open"
      THEN << Call("nat.netlink_open", "netlink_open", config.bridge_name, "warn") >>
      ELSE << Call("nat.netlink_open", "netlink_open", config.bridge_name, "warn"),
              Call("netlink_get_default_interface", "netlink_get_default_interface",
                   config.bridge_name, "warn") >>)
     \o << Call("ip_forward", "ip_forward", config.bridge_name, "warn"),
           Call("access_firewall", "access", config.bridge_name, "return"),
           Call("cleanup_nat_rules", "cleanup_nat_rules",
                [config |-> config, iface |-> default_iface], "ignore"),
           Call("masquerade", "masquerade",
                [config |-> config, iface |-> default_iface], "warn"),
           Call("forward_out", "forward_out",
                [config |-> config, iface |-> default_iface], "ignore"),
           Call("forward_in", "forward_in",
                [config |-> config, iface |-> default_iface], "ignore") >>

\* netlink_interface_exists as ensure_bridge_exists calls it: 1, 0, or -1 on
\* an error of if_nametoindex other than ENODEV.
netlink_interface_exists(h, name, f) ==
  IF f = "netlink_interface_exists" THEN -1
  ELSE IF name \in h.links THEN 1 ELSE 0

\* An ensure_bridge_exists that does not look for the bridge first.
ensure_bridge_exists_unchecked(h, config, f) ==
  << Call("bridge.netlink_open", "netlink_open", config.bridge_name, "return"),
     Call("netlink_create_bridge", "netlink_create_bridge",
          config.bridge_name, "return"),
     Call("bridge.netlink_add_ip_address", "netlink_add_ip_address",
          [iface |-> config.bridge_name, ip |-> config.bridge_ip], "return"),
     Call("bridge.netlink_set_interface_up", "netlink_set_interface_up",
          config.bridge_name, "return") >>
  \o setup_nat(config, f)

\* ensure_bridge_exists: the bridge is created, addressed and brought up
\* unless the check has found it; setup_nat runs in both cases.
ensure_bridge_exists(h, config, f) ==
  LET checked == f # "check.netlink_open"
      found   == checked /\ netlink_interface_exists(h, config.bridge_name, f) = 1
  IN << Call("check.netlink_open", "netlink_open", config.bridge_name, "ignore") >>
     \o (IF checked
         THEN << Call("netlink_interface_exists", "netlink_interface_exists",
                      config.bridge_name, "ignore") >>
         ELSE << >>)
     \o (IF found THEN << >>
         ELSE << Call("bridge.netlink_open", "netlink_open", config.bridge_name, "return"),
                 Call("netlink_create_bridge", "netlink_create_bridge",
                      config.bridge_name, "return"),
                 Call("bridge.netlink_add_ip_address", "netlink_add_ip_address",
                      [iface |-> config.bridge_name, ip |-> config.bridge_ip], "return"),
                 Call("bridge.netlink_set_interface_up", "netlink_set_interface_up",
                      config.bridge_name, "return") >>)
     \o setup_nat(config, f)

\* setup_veth_pair: create the pair, attach the host end to the bridge, bring
\* it up.
setup_veth_pair(config) ==
  << Call("veth.netlink_open", "netlink_open", config.veth_host, "return"),
     Call("netlink_create_veth_pair", "netlink_create_veth_pair",
          << config.veth_host, config.veth_container >>, "return"),
     Call("netlink_set_interface_master", "netlink_set_interface_master",
          [iface |-> config.veth_host, master |-> config.bridge_name], "return"),
     Call("veth.netlink_set_interface_up", "netlink_set_interface_up",
          config.veth_host, "return") >>

\* A microbox_setup_bridge_network that sets up the veth pair first.
setup_bridge_network_veth_first(h, config, f) ==
  setup_veth_pair(config) \o ensure_bridge_exists(h, config, f)

\* microbox_setup_bridge_network: ensure_bridge_exists, then setup_veth_pair.
setup_bridge_network(h, config, f) ==
  ensure_bridge_exists(h, config, f) \o setup_veth_pair(config)

\* move_veth_to_container: the container end goes into the child's netns.
move_veth(config, container_pid) ==
  << Call("move.netlink_open", "netlink_open", config.veth_container, "return"),
     Call("netlink_move_interface_to_netns", "netlink_move_interface_to_netns",
          [pid |-> container_pid, iface |-> config.veth_container], "return") >>

\* The network part of microbox_sandbox_spawn in the parent (sandbox.c
\* 492-516): nothing unless net_mode is NET_BRIDGE.
spawn_network(h, net_mode, pid, f) ==
  IF net_mode = "NET_BRIDGE"
  THEN LET config == generate_interface_names(pid)
       IN << Call("getuid", "getuid", config.bridge_name, "return") >>
          \o setup_bridge_network(h, config, f)
          \o move_veth(config, pid)
  ELSE << >>

\* The calls of spawn that may fail for a reason of their own.
SpawnFailures ==
  { "getuid", "check.netlink_open", "netlink_interface_exists",
    "bridge.netlink_open", "netlink_create_bridge",
    "bridge.netlink_add_ip_address", "bridge.netlink_set_interface_up",
    "nat.netlink_open", "netlink_get_default_interface", "ip_forward",
    "access_firewall", "masquerade", "forward_out", "forward_in",
    "veth.netlink_open", "netlink_create_veth_pair",
    "netlink_set_interface_master", "veth.netlink_set_interface_up",
    "move.netlink_open", "netlink_move_interface_to_netns" }

\* microbox_cleanup_network_interfaces: delete the host end named after the
\* container id; a failure is reported with -1.
cleanup_network_interfaces(container_id) ==
  LET config == generate_interface_names(container_id)
  IN << Call("cleanup.netlink_open", "netlink_open", config.veth_host, "return"),
        Call("netlink_delete_interface", "netlink_delete_interface",
             config.veth_host, "return") >>

CleanupFailures == { "cleanup.netlink_open", "netlink_delete_interface" }

\* How a payload can end: exit(3), killed by SIGKILL, core dump on SIGSEGV.
Terminations ==
  { [si_code |-> "CLD_EXITED", si_status |-> 3],
    [si_code |-> "CLD_KILLED", si_status |-> 9],
    [si_code |-> "CLD_DUMPED", si_status |-> 11] }

\* The child's _exit(127).
Exit127 == [si_code |-> "CLD_EXITED", si_status |-> 127]

\* microbox_sandbox_wait's return value: proc is "NULL" or a process, waitid
\* is what waitid returned, e the errno it left, si the siginfo it filled in.
sandbox_wait_status(proc, waitid, e, si) ==
  IF proc = "NULL" THEN -EINVAL
  ELSE IF waitid = -1 THEN -e
  ELSE IF si.si_code = "CLD_EXITED" THEN si.si_status
  ELSE IF si.si_code \in {"CLD_KILLED", "CLD_DUMPED"} THEN 128 + si.si_status
  ELSE 0

\* A supervisor whose exit code were the value itself.
main_return_unbounded(status) == status

\* main returns status: the exit code its parent sees is the low 8 bits.
main_return(status) == status % 256

NewBox(pid, net_mode) ==
  [ pid        |-> pid,
    net_mode   |-> net_mode,
    sup        |-> "new",      \* supervisor: new, failed, waiting, exited
    child      |-> "none",     \* child: none, blocked, running, dead
    configured |-> FALSE,      \* child: container interface configured
    sret       |-> None,       \* what microbox_sandbox_spawn returned
    calls      |-> << >>,      \* host-side calls of spawn
    caddr      |-> None,       \* address the child gave its interface
    si         |-> None,       \* how the child ended
    nullret    |-> None,       \* what microbox_sandbox_wait(NULL) returned
    wret       |-> None,       \* what microbox_sandbox_wait(&proc) returned
    wcalls     |-> << >>,      \* host-side calls of wait
    exitcode   |-> None ]      \* the supervisor's exit code

InitHost ==
  /\ opts = DefaultOptions
  /\ errno = 0
  /\ prog = ChildProgram(opts)
  /\ ppc = "spawn" /\ ret = None /\ pstatus = None /\ ptrace = << >>
  /\ pipe = 0 /\ rd = {} /\ wr = {}
  /\ cpc = "none" /\ cidx = 1 /\ ctrace = << >> /\ cexit = None
  /\ filter = [loaded |-> FALSE, rules |-> {}]
  /\ faults = 0
  /\ host = FreshHost
  /\ frame = << >>
  /\ boxes \in { [b \in Sandboxes |-> NewBox(p[b], m[b])] :
                   p \in { q \in [Sandboxes -> Pids] : q["a"] = 5 /\ q["b"] > 5 },
                   m \in { n \in [Sandboxes -> HostNetModes] : n["b"] = "NET_BRIDGE" } }
  /\ cgroupfs = << >>

Box(b, new) == boxes' = [boxes EXCEPT ![b] = new]

\* The call f fails for a reason of its own: at most MaxFaults such failures
\* in one run of the host.
Fault(f) ==
  IF f = "none" THEN UNCHANGED faults
  ELSE faults < MaxFaults /\ faults' = faults + 1

\* microbox_sandbox_spawn, seen from the host: the parent's network setup
\* after clone3.  On failure main exits with EXIT_FAILURE and the child stays
\* blocked at the barrier.
spawn(b) ==
  /\ boxes[b].sup = "new"
  /\ \E f \in SpawnFailures \cup {"none"} :
       /\ boxes[b].net_mode # "NET_BRIDGE" => f = "none"
       /\ Fault(f)
       /\ LET bx == boxes[b]
              r  == Run(host, spawn_network(host, bx.net_mode, bx.pid, f), f, << >>)
          IN /\ host' = r.h
             /\ Box(b, [bx EXCEPT !.sup   = IF r.ret = 0 THEN "waiting" ELSE "failed",
                                  !.child = IF r.ret = 0 THEN "running" ELSE "blocked",
                                  !.sret  = Some(r.ret),
                                  !.calls = r.calls,
                                  !.exitcode = IF r.ret = 0 THEN None ELSE Some(1)])
  /\ UNCHANGED <<svars, cgroupfs>>

\* The interfaces in the net namespace of the child pid.
InNetns(h, pid) == { n.iface : n \in { m \in h.netns : m.pid = pid } }

\* The child in bridge mode (sandbox.c 424-434): generate_interface_names of
\* getppid(), then microbox_configure_container_network: the first mbx*c
\* interface found gets config.container_ip; any failure is _exit(127).
configure(b) ==
  /\ boxes[b].child = "running"
  /\ boxes[b].net_mode = "NET_BRIDGE"
  /\ ~boxes[b].configured
  /\ LET bx     == boxes[b]
         config == generate_interface_names(getppid_in_child)
         mine   == InNetns(host, bx.pid)
     IN \E f \in {"none", "child.netlink_add_ip_address", "child.netlink_add_default_route"} :
          /\ Fault(f)
          /\ IF mine = {} \/ f = "child.netlink_add_ip_address"
             THEN /\ Box(b, [bx EXCEPT !.child = "dead", !.si = Some(Exit127)])
                  /\ UNCHANGED host
             ELSE LET actual == CHOOSE i \in mine : TRUE
                  IN /\ host' = [host EXCEPT !.caddrs = @ \cup
                                   {[pid |-> bx.pid, iface |-> actual, ip |-> config.container_ip]}]
                     /\ IF f = "none"
                        THEN Box(b, [bx EXCEPT !.configured = TRUE,
                                               !.caddr = Some(config.container_ip)])
                        ELSE Box(b, [bx EXCEPT !.child = "dead", !.si = Some(Exit127),
                                               !.caddr = Some(config.container_ip)])
  /\ UNCHANGED <<svars, cgroupfs>>

\* The payload ends.
terminate(b) ==
  /\ boxes[b].child = "running"
  /\ boxes[b].net_mode = "NET_BRIDGE" => boxes[b].configured
  /\ \E si \in Terminations :
       Box(b, [boxes[b] EXCEPT !.child = "dead", !.si = Some(si)])
  /\ UNCHANGED <<svars, faults, host, cgroupfs>>

\* The kernel destroys the net namespace of a dead child some time after its
\* death, and with it the interfaces inside and their peers.
cleanup_net(b) ==
  /\ boxes[b].child = "dead"
  /\ InNetns(host, boxes[b].pid) # {}
  /\ LET mine == InNetns(host, boxes[b].pid)
     IN host' = RemoveLinks(host, mine \cup UNION { PeersOf(host, i) : i \in mine })
  /\ UNCHANGED <<svars, faults, boxes, cgroupfs>>

\* A caller hands microbox_sandbox_wait no process (NULL): -EINVAL, nothing
\* else happens; the caller returns that value as main does.
wait_NULL(b) ==
  /\ boxes[b].sup = "waiting"
  /\ LET status == sandbox_wait_status("NULL", 0, 0, Exit127)
     IN Box(b, [boxes[b] EXCEPT !.sup = "exited", !.nullret = Some(status),
                                !.exitcode = Some(main_return(status))])
  /\ UNCHANGED <<svars, faults, host, cgroupfs>>

\* main: microbox_sandbox_wait(&proc), then return (status).  waitid may fail
\* at any time; it succeeds once the child is dead, and then the interfaces
\* named after proc->pid are cleaned up whatever the net_mode was.
wait(b) ==
  /\ boxes[b].sup = "waiting"
  /\ LET bx == boxes[b]
     IN \/ \E e \in WaitidErrnos :
             LET status == sandbox_wait_status(b, -1, e, Exit127)
             IN /\ Fault("waitid")
                /\ Box(b, [bx EXCEPT !.sup = "exited", !.wret = Some(status),
                                     !.exitcode = Some(main_return(status))])
                /\ UNCHANGED host
        \/ /\ bx.child = "dead"
           /\ \E f \in CleanupFailures \cup {"none"} :
                LET r      == Run(host, cleanup_network_interfaces(bx.pid), f, << >>)
                    status == sandbox_wait_status(b, 0, 0, bx.si[1])
                IN /\ Fault(f)
                   /\ host' = r.h
                   /\ Box(b, [bx EXCEPT !.sup = "exited", !.wret = Some(status),
                                        !.wcalls = r.calls,
                                        !.exitcode = Some(main_return(status))])
  /\ UNCHANGED <<svars, cgroupfs>>

NextHost ==
  \E b \in Sandboxes :
    \/ spawn(b)
    \/ configure(b)
    \/ terminate(b)
    \/ cleanup_net(b)
    \/ wait_NULL(b)
    \/ wait(b)

SpecHost == InitHost /\ [][NextHost]_vars

(***************************************************************************)
(* Properties of several sandboxes on one host.                            *)
(***************************************************************************)
\* The supervisor of b has returned from microbox_sandbox_wait(&proc).
Waited(b) == boxes[b].wret # None

\* C11 (as amended): microbox_sandbox_wait returns the child's exit status
\* after a normal exit, 128 + the signal number after a death by signal (core
\* dump included), and a negative errno when waitid fails or proc is NULL;
\* the supervisor's exit code is that value modulo 256: the value itself
\* when it is a status, 256 - errno when it is -errno.
C11_WaitStatusAndExitCode ==
  \A b \in Sandboxes :
    /\ boxes[b].nullret # None =>
         /\ boxes[b].nullret[1] = -EINVAL
         /\ boxes[b].exitcode[1] = 256 - EINVAL
    /\ Waited(b) =>
         LET status == boxes[b].wret[1]
             code   == boxes[b].exitcode[1]
         IN /\ (boxes[b].wcalls = << >>) = (status < 0)
            /\ status >= 0 =>
                 /\ boxes[b].child = "dead"
                 /\ LET si == boxes[b].si[1]
                    IN status = IF si.si_code = "CLD_EXITED" THEN si.si_status
                                ELSE 128 + si.si_status
                 /\ code = status
            /\ status < 0 => -status \in WaitidErrnos /\ code = 256 + status

\* C11 as stated: the supervisor's exit code is the value wait returned.
C11_ExitCodeIsWaitStatus ==
  \A b \in Sandboxes : Waited(b) => boxes[b].exitcode[1] = boxes[b].wret[1]

\* A child killed by a signal has been waited for, the wait for another has
\* failed.
C11_Witness_SignalAndFailure ==
  /\ Waited("a") /\ boxes["a"].si # None /\ boxes["a"].wret[1] = 128 + 9
  /\ Waited("b") /\ boxes["b"].wret[1] < 0

\* The calls with a given id in a sequence of calls made.
CallsOf(made, id) == { i \in 1..Len(made) : made[i].id = id }

\* The veth pair sandbox b's spawn has created, if it has.
CreatedVeth(bx) ==
  { bx.calls[i].arg[1] : i \in { j \in CallsOf(bx.calls, "netlink_create_veth_pair") :
                                   bx.calls[j].res = "ok" } }

\* The supervisor of b returns from microbox_sandbox_wait in this step, the
\* child having terminated.
WaitReturns(b) ==
  /\ boxes[b].wret = None
  /\ boxes'[b].wret # None
  /\ boxes'[b].wret[1] >= 0

\* C12: when microbox_sandbox_wait returns for a bridge-mode sandbox whose
\* child has terminated, the host-side interface mbx<id>h that spawn created
\* for it is gone from the host, and the name wait asks to delete is the name
\* spawn created (both from the child PID modulo 254).
C12_VethGoneAfterWait ==
  [][ \A b \in Sandboxes :
        WaitReturns(b) /\ boxes[b].net_mode = "NET_BRIDGE" =>
          \A name \in CreatedVeth(boxes[b]) :
            /\ name \notin host'.links
            /\ \A i \in CallsOf(boxes'[b].wcalls, "netlink_delete_interface") :
                 boxes'[b].wcalls[i].arg = name ]_vars

\* A step of the supervisor of b: its spawn, or its wait and return.
SupervisorStep(b) == boxes'[b].sup # boxes[b].sup

\* C13: for net_mode None, Host or Private, neither spawn nor wait creates,
\* modifies or deletes a host network interface, a firewall rule or the
\* ip_forward setting; in particular reaping such a sandbox never deletes the
\* veth interface of another, still running bridge-mode sandbox.
C13_NonBridgeLeavesHostAlone ==
  [][ \A b \in Sandboxes :
        SupervisorStep(b) /\ boxes[b].net_mode # "NET_BRIDGE" => host' = host ]_vars

\* The host-side steps of a bridge-mode spawn.
HostSideSteps ==
  { "netlink_create_bridge", "bridge.netlink_add_ip_address",
    "bridge.netlink_set_interface_up", "ip_forward", "masquerade",
    "forward_out", "forward_in", "netlink_create_veth_pair",
    "netlink_set_interface_master", "veth.netlink_set_interface_up",
    "netlink_move_interface_to_netns" }

\* A step of steps has failed in the spawn of b.
StepFailed(b, steps) ==
  \E i \in 1..Len(boxes[b].calls) :
    boxes[b].calls[i].id \in steps /\ boxes[b].calls[i].res = "fail"

\* spawn has failed for b and its child has not been released.
SpawnAborted(b) ==
  /\ boxes[b].sret # None
  /\ boxes[b].sret[1] < 0
  /\ boxes[b].child = "blocked"

\* C14: in bridge mode, if any host-side step fails (bridge creation, bridge
\* address, bridge up, ip_forward, the masquerade rule, either FORWARD rule,
\* veth pair creation, veth master, host veth up, the move of the container
\* veth into the child's netns), spawn returns failure and the barrier is not
\* released.
C14_HostFailureAbortsSpawn ==
  \A b \in Sandboxes : StepFailed(b, HostSideSteps) => SpawnAborted(b)

\* C15: in bridge mode the address the child gives its container interface
\* is 172.20.0.((container_pid mod 254) + 2), container_pid being the PID the
\* parent named the veth pair after (parent and child derive the same
\* NetnsConfig); it is never the bridge address 172.20.0.1 and lies in
\* 172.20.0.2 .. 172.20.0.255.
C15_ChildAddressFromContainerPid ==
  \A b \in Sandboxes :
    boxes[b].caddr # None =>
      LET addr == boxes[b].caddr[1]
      IN /\ addr = generate_interface_names(boxes[b].pid).container_ip
         /\ addr = << 172, 20, 0, (boxes[b].pid % 254) + 2 >>
         /\ addr # generate_interface_names(boxes[b].pid).bridge_ip
         /\ addr[4] \in 2..255

\* The bridge of every NetnsConfig.
microbox0 == generate_interface_names(0).bridge_name

\* The bridges on host h and the addresses of microbox0.
Bridges(h) == { l \in h.links : l.pre = "microbox" }
BridgeAddrs(h) == { a \in h.addrs : a.iface = microbox0 }

\* The supervisor of b returns from a bridge-mode spawn in this step.
BridgeSpawn(b) ==
  /\ boxes[b].net_mode = "NET_BRIDGE"
  /\ boxes[b].sret = None
  /\ boxes'[b].sret # None

\* microbox0 is on the host when b's spawn starts, and no call of its
\* existence check fails: the spawn finds the bridge.
FindsBridge(b) ==
  /\ microbox0 \in host.links
  /\ \A i \in 1..Len(boxes'[b].calls) :
       boxes'[b].calls[i].id \in {"check.netlink_open", "netlink_interface_exists"}
         => boxes'[b].calls[i].res = "ok"

\* C16: after any sequence of bridge-mode spawns exactly one bridge
\* microbox0 exists; a spawn that finds microbox0 already present does not
\* create it again, does not re-assign its address, does not fail because it
\* exists, and completes successfully (when none of its calls fails).
C16_BridgeIdempotent ==
  [][ \A b \in Sandboxes :
        BridgeSpawn(b) =>
          /\ boxes'[b].sret[1] = 0 => Bridges(host') = {microbox0}
          /\ FindsBridge(b) =>
                /\ Bridges(host') = Bridges(host)
                /\ BridgeAddrs(host') = BridgeAddrs(host)
                /\ CallsOf(boxes'[b].calls, "netlink_create_bridge") = {}
                /\ CallsOf(boxes'[b].calls, "bridge.netlink_add_ip_address") = {}
                /\ \/ boxes'[b].sret[1] = 0
                   \/ \E i \in 1..Len(boxes'[b].calls) : boxes'[b].calls[i].res = "fail" ]_vars

\* Two bridge-mode spawns have succeeded on the host, the second without
\* creating the bridge.
C16_Witness_SecondSpawnReusesBridge ==
  /\ \A b \in Sandboxes : boxes[b].net_mode = "NET_BRIDGE" /\ boxes[b].sret = Some(0)
  /\ CallsOf(boxes["a"].calls, "netlink_create_bridge") # {}
  /\ CallsOf(boxes["b"].calls, "netlink_interface_exists") # {}
  /\ CallsOf(boxes["b"].calls, "netlink_create_bridge") = {}
  /\ Bridges(host) = {microbox0}

(***************************************************************************)
(* The cgroup directories of the host.                                     *)
(*                                                                         *)
(* SpecCgroup runs sandboxes one after another, or side by side, on one    *)
(* host and keeps /sys/fs/cgroup/microbox-<pid>: setup_cgroup_limits as a  *)
(* whole, with the call that fails in it chosen nondeterministically, and  *)
(* the end of a sandbox.  Nothing in the program removes a directory.      *)
(***************************************************************************)
Runs == 1..2

\* PIDs the kernel hands out to the children; a PID is free again once its
\* process has been reaped.
CgroupPids == {5, 6}

\* --cpus values: a double is written [whole, frac] with frac in 1/100000
\* (0, 0.5, 2, 42949, 42950); for each of them cpus * 100000 is exact in
\* double arithmetic.
CpuValues ==
  { [whole |-> 0, frac |-> 0], [whole |-> 0, frac |-> 50000],
    [whole |-> 2, frac |-> 0], [whole |-> 42949, frac |-> 0],
    [whole |-> 42950, frac |-> 0] }

\* --memory values in bytes (0, 1M).
MemoryValues == {0, 1048576}

\* Numbers of 32 bits and more are kept as hi * 65536 + lo.
Wide(hi, lo) == [hi |-> hi, lo |-> lo]

\* cpus * period with period = 100000 = 65536 + 34464, as a real number.
cpus_times_period(cpus) ==
  LET l == cpus.whole * 34464 + cpus.frac
  IN Wide(cpus.whole + (l \div 65536), l % 65536)

\* (unsigned int)x for a double x >= 0.  In range the value is kept; out of
\* range the conversion is undefined: the builds either wrap modulo 2^32
\* (x86-64: cvttsd2si to 64 bits, low half kept) or saturate (AArch64).
unsigned_int(x) ==
  IF x.hi < 65536 THEN {x}
  ELSE { Wide(x.hi % 65536, x.lo), Wide(65535, 65535) }

\* printf("%u") and ("%" PRIu64): the decimal digits, by repeated division.
RECURSIVE utoa(_)
utoa(x) ==
  LET r == (x.hi % 10) * 65536 + x.lo
  IN IF x.hi = 0 /\ x.lo < 10 THEN << x.lo >>
     ELSE Append(utoa(Wide(x.hi \div 10, r \div 10)), r % 10)

Decimal(n) == utoa(Wide(n \div 65536, n % 65536))

\* The word "max" a limit file holds when no limit is set.
Max == << >>

\* A directory the kernel has just created: no limits, no processes.
NewDir ==
  [ cpu_max         |-> << Max, Decimal(100000) >>,
    memory_max      |-> Max,
    memory_swap_max |-> Max,
    procs           |-> {} ]

\* A setup that writes the three limit files whatever the options are.
cgroup_writes_unconditional(pid, cpus, memory, quota) ==
  << [file |-> "cgroup.subtree_control", text |-> << "+memory", "+cpu" >>, tolerant |-> TRUE],
     [file |-> "mkdir", text |-> Decimal(pid), tolerant |-> FALSE],
     [file |-> "cpu.max", text |-> << utoa(quota), Decimal(100000) >>, tolerant |-> FALSE],
     [file |-> "memory.max", text |-> Decimal(memory), tolerant |-> FALSE],
     [file |-> "memory.swap.max", text |-> Decimal(0), tolerant |-> FALSE],
     [file |-> "cgroup.procs", text |-> Decimal(pid), tolerant |-> FALSE] >>

\* The writes of setup_cgroup_limits for (pid, cpus, memory), quota being
\* the converted cpus * period: the file, the text, and whether a failure
\* of the write is overlooked.
cgroup_writes(pid, cpus, memory, quota) ==
  << [file |-> "cgroup.subtree_control", text |-> << "+memory", "+cpu" >>, tolerant |-> TRUE],
     [file |-> "mkdir", text |-> Decimal(pid), tolerant |-> FALSE] >>
  \o (IF cpus.whole > 0 \/ cpus.frac > 0
      THEN << [file |-> "cpu.max", text |-> << utoa(quota), Decimal(100000) >>,
               tolerant |-> FALSE] >>
      ELSE << >>)
  \o (IF memory > 0
      THEN << [file |-> "memory.max", text |-> Decimal(memory), tolerant |-> FALSE],
              [file |-> "memory.swap.max", text |-> Decimal(0), tolerant |-> FALSE] >>
      ELSE << >>)
  \o << [file |-> "cgroup.procs", text |-> Decimal(pid), tolerant |-> FALSE] >>

\* What a write does to the directory d of the sandbox (mkdir: EEXIST is
\* success and the directory is kept as it is).
cgroup_apply(d, w, pid) ==
  CASE w.file = "mkdir"           -> IF d = None THEN Some(NewDir) ELSE d
    [] w.file = "cpu.max"         -> Some([d[1] EXCEPT !.cpu_max = w.text])
    [] w.file = "memory.max"      -> Some([d[1] EXCEPT !.memory_max = w.text])
    [] w.file = "memory.swap.max" -> Some([d[1] EXCEPT !.memory_swap_max = w.text])
    [] w.file = "cgroup.procs"    -> Some([d[1] EXCEPT !.procs = @ \cup {pid}])
    [] OTHER                      -> d

\* setup_cgroup_limits on directory d: the writes in order; the write f
\* fails ("none": no write does) and the function returns -errno unless the
\* failure is overlooked.  The result is the directory, the return value
\* and the writes made.
RECURSIVE setup_cgroup_limits(_, _, _, _, _)
setup_cgroup_limits(d, ws, pid, f, made) ==
  IF ws = << >> THEN [d |-> d, ret |-> 0, writes |-> made]
  ELSE LET w == Head(ws)
       IN IF w.file = f
          THEN IF w.tolerant
               THEN setup_cgroup_limits(d, Tail(ws), pid, f,
                                        Append(made, [file |-> w.file, text |-> w.text, res |-> "tolerated"]))
               ELSE [d |-> d, ret |-> -EINVAL,
                     writes |-> Append(made, [file |-> w.file, text |-> w.text, res |-> "fail"])]
          ELSE setup_cgroup_limits(cgroup_apply(d, w, pid), Tail(ws), pid, f,
                                   Append(made, [file |-> w.file, text |-> w.text, res |-> "ok"]))

CgroupFailures ==
  { "cgroup.subtree_control", "mkdir", "cpu.max", "memory.max",
    "memory.swap.max", "cgroup.procs" }

NoRun == [pid |-> 0, cpus |-> [whole |-> 0, frac |-> 0], memory |-> 0,
          st |-> "none", ret |-> None, writes |-> << >>]

InitCgroup ==
  /\ opts = DefaultOptions
  /\ errno = 0
  /\ prog = ChildProgram(opts)
  /\ ppc = "spawn" /\ ret = None /\ pstatus = None /\ ptrace = << >>
  /\ pipe = 0 /\ rd = {} /\ wr = {}
  /\ cpc = "none" /\ cidx = 1 /\ ctrace = << >> /\ cexit = None
  /\ filter = [loaded |-> FALSE, rules |-> {}]
  /\ faults = 0
  /\ host = << >>
  /\ boxes = [r \in Runs |-> NoRun]
  /\ cgroupfs = [p \in CgroupPids |-> None]
  /\ frame = << >>

\* The PIDs of the children that run or wait to be reaped.
LivePids == { boxes[r].pid : r \in { q \in Runs : boxes[q].st \in {"running", "blocked"} } }

\* A sandbox is spawned with (cpus, memory) and its child gets a free PID:
\* the parent's setup_cgroup_limits(pid, opts->cpus, opts->memory).  On
\* failure spawn returns the negative value and the child stays blocked.
spawn_cgroup(r) ==
  /\ boxes[r].st = "none"
  /\ \A q \in Runs : q < r => boxes[q].st # "none"
  /\ \E pid \in CgroupPids \ LivePids, cpus \in CpuValues, memory \in MemoryValues,
        f \in CgroupFailures \cup {"none"} :
       \E quota \in unsigned_int(cpus_times_period(cpus)) :
         LET ws == cgroup_writes(pid, cpus, memory, quota)
             s  == setup_cgroup_limits(cgroupfs[pid], ws, pid, f, << >>)
         IN /\ f # "none" => \E i \in 1..Len(ws) : ws[i].file = f
            /\ Fault(f)
            /\ cgroupfs' = [cgroupfs EXCEPT ![pid] = s.d]
            /\ boxes' = [boxes EXCEPT ![r] =
                           [pid |-> pid, cpus |-> cpus, memory |-> memory,
                            st |-> IF s.ret = 0 THEN "running" ELSE "blocked",
                            ret |-> Some(s.ret), writes |-> s.writes]]
  /\ UNCHANGED <<svars, host>>

\* The sandbox ends and is reaped: its PID is free again and the kernel
\* takes it out of cgroup.procs.  The directory stays.
reap_cgroup(r) ==
  /\ boxes[r].st = "running"
  /\ boxes' = [boxes EXCEPT ![r].st = "reaped"]
  /\ cgroupfs' = [cgroupfs EXCEPT ![boxes[r].pid] =
                    Some([@[1] EXCEPT !.procs = @ \ {boxes[r].pid}])]
  /\ UNCHANGED <<svars, faults, host>>

NextCgroup == \E r \in Runs : spawn_cgroup(r) \/ reap_cgroup(r)

SpecCgroup == InitCgroup /\ [][NextCgroup]_vars

(***************************************************************************)
(* Properties of the cgroup setup.                                         *)
(***************************************************************************)
\* The sandboxes whose cgroup setup has succeeded and that still run.
Limited == { r \in Runs : boxes[r].st = "running" }

\* The files run r has written (or tried to).
Written(r) == { boxes[r].writes[i].file : i \in 1..Len(boxes[r].writes) }

\* C18: whatever ran before on the host, a sandbox spawned with cpus = 0
\* runs in a cgroup without CPU quota, and one spawned with memory = 0 runs
\* without memory or swap limit.
C18_NoLimitWhenZero ==
  \A r \in Limited :
    LET d == cgroupfs[boxes[r].pid][1]
    IN /\ boxes[r].cpus = [whole |-> 0, frac |-> 0] => d.cpu_max[1] = Max
       /\ boxes[r].memory = 0 => d.memory_max = Max /\ d.memory_swap_max = Max

\* The sandboxes that have been spawned, and those whose cgroup setup has
\* returned 0.
Spawned == { r \in Runs : boxes[r].st # "none" }
SetUp == { r \in Spawned : boxes[r].ret = Some(0) }

\* The text run r has written to file.
TextOf(r, file) ==
  boxes[r].writes[CHOOSE i \in 1..Len(boxes[r].writes) : boxes[r].writes[i].file = file].text

\* The number a sequence of decimal digits stands for.
RECURSIVE atou(_)
atou(digits) ==
  IF digits = << >> THEN 0
  ELSE 10 * atou(SubSeq(digits, 1, Len(digits) - 1)) + digits[Len(digits)]

WantsCpu(r) == boxes[r].cpus.whole > 0 \/ boxes[r].cpus.frac > 0
WantsMemory(r) == boxes[r].memory > 0

\* The limit files: written only when asked for, and written by every setup
\* that returns 0 when asked for; memory.max holds the decimal byte count
\* and memory.swap.max holds 0.
LimitFilesAsAsked ==
  /\ \A r \in Spawned :
       /\ "cpu.max" \in Written(r) => WantsCpu(r)
       /\ "memory.max" \in Written(r) => WantsMemory(r)
       /\ "memory.swap.max" \in Written(r) => WantsMemory(r)
       /\ "memory.max" \in Written(r) => atou(TextOf(r, "memory.max")) = boxes[r].memory
       /\ "memory.swap.max" \in Written(r) => TextOf(r, "memory.swap.max") = << 0 >>
  /\ \A r \in SetUp :
       /\ WantsCpu(r) => "cpu.max" \in Written(r)
       /\ WantsMemory(r) => {"memory.max", "memory.swap.max"} \subseteq Written(r)

\* C19 (as amended): cpu.max is written if and only if cpus > 0, memory.max
\* and memory.swap.max if and only if memory > 0 (the decimal byte count and
\* 0); with cpus = 0 and memory = 0 only the controllers are enabled in
\* cgroup.subtree_control, the directory is created and cgroup.procs is
\* written.
C19_LimitFilesIffAsked ==
  /\ LimitFilesAsAsked
  /\ \A r \in SetUp :
       ~ WantsCpu(r) /\ ~ WantsMemory(r) =>
         Written(r) = {"cgroup.subtree_control", "mkdir", "cgroup.procs"}

\* C19 as stated: with cpus = 0 and memory = 0 only the directory creation
\* and the cgroup.procs write occur.
C19_OnlyMkdirAndProcs ==
  /\ LimitFilesAsAsked
  /\ \A r \in SetUp :
       ~ WantsCpu(r) /\ ~ WantsMemory(r) => Written(r) = {"mkdir", "cgroup.procs"}

\* One sandbox has been set up without limits, another with a CPU and a
\* memory limit.
C19_Witness_WithAndWithoutLimits ==
  /\ 1 \in SetUp /\ ~ WantsCpu(1) /\ ~ WantsMemory(1)
  /\ 2 \in SetUp /\ WantsCpu(2) /\ WantsMemory(2)
  /\ TextOf(2, "memory.max") = << 1, 0, 4, 8, 5, 7, 6 >>

\* C20: for every cpus > 0 the text written to cpu.max is "<quota> 100000"
\* with quota = floor(cpus * 100000) (cpus = 0.5 gives "50000 100000"); the
\* conversion to a 32-bit unsigned integer does not wrap or truncate it.
C20_CpuMaxIsQuotaAndPeriod ==
  \A r \in Spawned :
    "cpu.max" \in Written(r) =>
      /\ TextOf(r, "cpu.max") =
           << utoa(cpus_times_period(boxes[r].cpus)), << 1, 0, 0, 0, 0, 0 >> >>
      /\ boxes[r].cpus = [whole |-> 0, frac |-> 50000] =>
           TextOf(r, "cpu.max")[1] = << 5, 0, 0, 0, 0 >>

(***************************************************************************)
(* Properties of the identity-map writes (checked on Spec).                *)
(***************************************************************************)
IdentityMapWrites == { "setgroups", "uid_map", "gid_map" }

\* C17: setgroups=deny is written before gid_map; each of the three
\* identity-map writes either writes its full content or makes spawn fail;
\* after a failed or short write the parent makes no later step (network
\* setup, cgroup setup, barrier release).
C17_IdentityMapWritesAllOrFail ==
  \A j \in 1..Len(ptrace) :
    /\ ptrace[j].op = "gid_map" =>
         \E i \in 1..(j - 1) : ptrace[i].op = "setgroups"
    /\ ptrace[j].op \in IdentityMapWrites /\ ptrace[j].res # "ok" =>
         /\ j = Len(ptrace)
         /\ ret # None
         /\ ret[1] < 0

(***************************************************************************)
(* Properties of the cgroup steps of the parent (checked on Spec).         *)
(***************************************************************************)
\* The limit files setup_cgroup_limits writes for the options o.
LimitFiles(o) ==
  (IF o.cpus > 0 THEN { "cpu.max" } ELSE {})
    \cup (IF o.memory > 0 THEN { "memory.max", "memory.swap.max" } ELSE {})

CgroupSteps == { "mkdir_cgroup", "cpu.max", "memory.max", "memory.swap.max", "cgroup.procs" }

PipeEndsHeld(p) ==
  (IF p \in rd THEN { "sync_pipe[0]" } ELSE {})
    \cup (IF p \in wr THEN { "sync_pipe[1]" } ELSE {})

\* setup_uid_gid_map: the descriptor a call leaves open when it returns.
\* write_file and the uid_map block close theirs on every path; the gid_map
\* block returns without close(fd) when its write is not complete.
setup_uid_gid_map_leaves(op, out) ==
  IF op = "gid_map" /\ out \in { "write_fail", "short" } THEN { "gid_map" } ELSE {}

\* C22: the supervisor holds no descriptor it opened once spawn has returned
\* (followed here: both ends of the barrier pipe, and the setgroups, uid_map
\* and gid_map descriptors), and the child holds no end of the barrier pipe
\* when it has reached execve.
C22_DescriptorsClosed ==
  /\ ppc = "wait" => PipeEndsHeld("parent") = {}
  /\ \A i \in 1..Len(ptrace) :
       setup_uid_gid_map_leaves(ptrace[i].op, ptrace[i].res) = {}
  /\ cpc = "execd" => PipeEndsHeld("child") = {}

(***************************************************************************)
(* microbox_sandbox_spawn from its entry to clone3, for every pair of      *)
(* arguments: opts and process are pointers, NULL or not.  main always     *)
(* passes the address of its two locals; another caller need not.          *)
(***************************************************************************)
\* The options spawn reads before clone3 and right after it, varied over
\* every mode cli_parse_options yields.
SpawnOptions ==
  { [DefaultOptions EXCEPT !.fs_mode = f, !.net_mode = n, !.cpus = c, !.memory = m] :
      f \in FsModes, n \in HostNetModes, c \in {0, 1}, m \in {0, 1024} }

\* The flags every sandbox is cloned with.
CloneFlagsAlways ==
  { "CLONE_NEWUSER", "CLONE_NEWPID", "CLONE_NEWUTS", "CLONE_NEWIPC",
    "CLONE_PIDFD", "CLONE_NEWCGROUP", "CLONE_NEWTIME" }

\* Flags that do not look at the network mode.
clone_flags_newnet_always(o) ==
  CloneFlagsAlways
    \cup { "CLONE_NEWNET" }
    \cup (IF o.fs_mode # "FS_HOST" THEN { "CLONE_NEWNS" } ELSE {})

\* The flags of struct clone_args as spawn computes them from the options.
clone_flags(o) ==
  CloneFlagsAlways
    \cup (IF o.net_mode # "NET_HOST" THEN { "CLONE_NEWNET" } ELSE {})
    \cup (IF o.fs_mode # "FS_HOST" THEN { "CLONE_NEWNS" } ELSE {})

InitSpawnEntry ==
  /\ frame \in [ opts : { "NULL", "&opts" }, process : { "NULL", "&proc" }, flags : { {} } ]
  /\ opts \in SpawnOptions
  /\ frame.opts = "NULL" => opts = DefaultOptions
  /\ prog = ChildProgram(opts)
  /\ errno = 0
  /\ ppc = "enter"
  /\ ret = None /\ pstatus = None /\ ptrace = << >>
  /\ pipe = 0 /\ rd = {} /\ wr = {}
  /\ cpc = "none" /\ cidx = 1 /\ ctrace = << >> /\ cexit = None
  /\ filter = [loaded |-> FALSE, rules |-> {}]
  /\ faults = 0
  /\ host = << >> /\ boxes = << >> /\ cgroupfs = << >>

\* The entry of microbox_sandbox_spawn: the NULL test, then the flags and the
\* clone_args; MAKE_PIPE comes next.
microbox_sandbox_spawn_entry ==
  /\ ppc = "enter"
  /\ IF frame.opts = "NULL" \/ frame.process = "NULL"
     THEN /\ ret' = Some(-EINVAL)
          /\ ppc' = "returned"
          /\ UNCHANGED frame
     ELSE /\ frame' = [frame EXCEPT !.flags = clone_flags(opts)]
          /\ ppc' = "spawn"
          /\ UNCHANGED ret
  /\ UNCHANGED <<opts, prog, errno, pstatus, ptrace, pipe, rd, wr, cvars, faults,
                 host, boxes, cgroupfs>>

NextSpawnEntry == microbox_sandbox_spawn_entry \/ MAKE_PIPE \/ clone3

SpecSpawnEntry == InitSpawnEntry /\ [][NextSpawnEntry]_vars

\* C23: once spawn is past its entry with two non-NULL arguments, the clone
\* flags hold NEWUSER, NEWPID, NEWUTS, NEWIPC, NEWCGROUP, NEWTIME and PIDFD,
\* hold NEWNET exactly when net_mode is not NET_HOST and NEWNS exactly when
\* fs_mode is not FS_HOST; with opts or process NULL spawn returns -EINVAL,
\* and no pipe end and no child exists at any time.
C23_CloneFlags ==
  IF frame.opts = "NULL" \/ frame.process = "NULL"
  THEN /\ rd = {} /\ wr = {} /\ cpc = "none"
       /\ ppc # "enter" => ppc = "returned" /\ ret = Some(-EINVAL)
  ELSE ppc # "enter" =>
         /\ CloneFlagsAlways \subseteq frame.flags
         /\ ("CLONE_NEWNET" \in frame.flags) = (opts.net_mode # "NET_HOST")
         /\ ("CLONE_NEWNS" \in frame.flags) = (opts.fs_mode # "FS_HOST")
         /\ frame.flags \subseteq CloneFlagsAlways \cup { "CLONE_NEWNET", "CLONE_NEWNS" }

\* A child cloned into the host's network and mount namespaces.
C23_Witness_HostNetHostFs ==
  /\ cpc = "barrier"
  /\ opts.net_mode = "NET_HOST"
  /\ opts.fs_mode = "FS_HOST"
  /\ frame.flags = CloneFlagsAlways

(***************************************************************************)
(* The environment of the payload: env_len, merge, flatten_env and the     *)
(* lines of the child that call them.  An env_var_t array is the sequence  *)
(* of the entries that lie in memory from its first one on; the entry that *)
(* ends it has a NULL name.  A NULL array pointer is the empty sequence.   *)
(***************************************************************************)
MaxEnv == 2   \* --env arguments per command line

\* The null pointer: a value no string of the model equals.
NULL == "NULL"

NullEntry == [name |-> NULL, value |-> NULL]

safe_env ==
  << [name |-> "PATH", value |-> "/usr/bin:/bin:/usr/sbin:/sbin:/usr/local/bin"],
     [name |-> "HOME", value |-> "/root"],
     [name |-> "TERM", value |-> "xterm"],
     NullEntry >>

\* The entries --env arguments give: a name of safe_env and one outside it.
EnvEntries == [ name : { "TERM", "FOO" }, value : { "vt100", "bar" } ]

\* opts->env as cli_parse_options builds it: env_len entries in a block of
\* exactly that size, with nothing stored after the last one; NULL without
\* --env.
UserEnvs == SeqsUpTo(EnvEntries, MaxEnv)

\* What a read finds behind the last entry of the block: a NULL name, bytes
\* left there by an earlier use of the heap that read as one more entry and
\* then a NULL name, or no NULL name up to the end of the mapped memory.
JunkEntry == [name |-> "JUNK", value |-> "junk"]

Beyond == { << NullEntry >>, << JunkEntry, NullEntry >>, << >> }

\* The memory read holds an entry with a NULL name.
Terminated(env) == \E i \in 1..Len(env) : env[i].name = NULL

\* env_len: the number of entries before the first NULL name; 0 for a NULL
\* array.
env_len(env) ==
  IF env = << >> THEN 0
  ELSE (CHOOSE i \in 1..Len(env) :
          /\ env[i].name = NULL
          /\ \A k \in 1..(i - 1) : env[k].name # NULL) - 1

\* The second loop of merge from its i-th iteration on: the first entry of out
\* with the name of env2[i] gets its value, or env2[i] is added at the end.
RECURSIVE merge_from(_, _, _, _)
merge_from(out, env2, i, n2) ==
  IF i > n2 THEN out
  ELSE LET hits == { j \in 1..Len(out) : out[j].name = env2[i].name }
           j == CHOOSE h \in hits : \A g \in hits : h <= g
       IN  merge_from(IF hits = {} THEN Append(out, env2[i])
                      ELSE [out EXCEPT ![j].value = env2[i].value],
                      env2, i + 1, n2)

\* A merge that adds every entry of env2 at the end.
merge_append(env1, env2) ==
  SubSeq(env1, 1, env_len(env1)) \o SubSeq(env2, 1, env_len(env2)) \o << NullEntry >>

\* merge(env1, env2): a copy of env1, then the second loop, then the NULL
\* entry.
merge(env1, env2) ==
  merge_from(SubSeq(env1, 1, env_len(env1)), env2, 1, env_len(env2)) \o << NullEntry >>

\* flatten_env: one "NAME=VALUE" string per entry, "NAME=" for a NULL value,
\* then a NULL pointer.
flatten_env(env) ==
  [i \in 1..env_len(env) |->
     env[i].name \o "=" \o (IF env[i].value = NULL THEN "" ELSE env[i].value)]
    \o << NULL >>

\* The child from the merge to execve (sandbox.c 467-471).  frame holds its
\* locals merged_env and flat_env, once execve is called its envp, and
\* whether an allocation has failed (ENOMEM).
InitEnv ==
  /\ opts \in { [DefaultOptions EXCEPT !.env = e] : e \in UserEnvs }
  /\ frame = [pc |-> "merge", merged_env |-> << >>, flat_env |-> << >>, envp |-> << >>,
              enomem |-> FALSE]
  /\ prog = ChildProgram(opts)
  /\ errno = 0
  /\ ppc = "wait" /\ ret = Some(0) /\ pstatus = None /\ ptrace = ParentTraceOfSuccess
  /\ pipe = 0 /\ rd = {} /\ wr = {"child"}
  /\ cpc = "run" /\ cidx = 1 /\ ctrace = << >> /\ cexit = None
  /\ filter = [loaded |-> FALSE, rules |-> {}]
  /\ faults = 0
  /\ host = << >> /\ boxes = << >> /\ cgroupfs = << >>

EnvFrame == UNCHANGED <<opts, prog, pvars, pipe, rd, wr, cpc, cidx, ctrace, cexit, filter,
                        faults, host, boxes, cgroupfs>>

\* merged_env = opts->env ? merge(safe_env, opts->env) : safe_env.  The read
\* of opts->env goes on behind its last entry; merge gives NULL when an
\* allocation fails.
child_merge ==
  /\ frame.pc = "merge"
  /\ IF opts.env = << >>
     THEN frame' = [frame EXCEPT !.pc = "flatten", !.merged_env = safe_env]
     ELSE \/ \E b \in Beyond :
               IF Terminated(opts.env \o b)
               THEN frame' = [frame EXCEPT !.pc = "flatten",
                                           !.merged_env = merge(safe_env, opts.env \o b)]
               ELSE frame' = [frame EXCEPT !.pc = "SIGSEGV"]
          \/ frame' = [frame EXCEPT !.pc = "flatten", !.merged_env = << >>,
                                    !.enomem = TRUE]
  /\ EnvFrame

\* flat_env = flatten_env(merged_env); NULL when an allocation fails.
child_flatten ==
  /\ frame.pc = "flatten"
  /\ \/ frame' = [frame EXCEPT !.pc = "execve", !.flat_env = flatten_env(frame.merged_env)]
     \/ frame' = [frame EXCEPT !.pc = "execve", !.flat_env = << >>, !.enomem = TRUE]
  /\ EnvFrame

\* execve(opts->cmd[0], opts->cmd, flat_env).
child_execve ==
  /\ frame.pc = "execve"
  /\ frame' = [frame EXCEPT !.pc = "execd", !.envp = frame.flat_env]
  /\ EnvFrame

NextEnv == child_merge \/ child_flatten \/ child_execve

SpecEnv == InitEnv /\ [][NextEnv]_vars

\* The names the payload is to find, and the values a name may have there.
EnvNames(user) == { "PATH", "HOME", "TERM" } \cup { user[i].name : i \in 1..Len(user) }

EnvValues(user, nm) ==
  IF \E i \in 1..Len(user) : user[i].name = nm
  THEN { user[i].value : i \in { k \in 1..Len(user) : user[k].name = nm } }
  ELSE { safe_env[i].value : i \in { k \in 1..3 : safe_env[k].name = nm } }

\* C24: the environment handed to execve is a NULL-terminated array that
\* holds, for PATH, HOME, TERM and every name of the user array built by the
\* parser, exactly one string "NAME=VALUE", the value being the user's when
\* the user gave the name and the safe default otherwise, and no other
\* string; without --env it is the three safe defaults.  (Runs in which an
\* allocation failed are left aside.)
C24_ExecveEnvironment ==
  frame.pc = "execd" /\ ~ frame.enomem =>
    LET envp == frame.envp
        n == Len(envp)
    IN  /\ n = Cardinality(EnvNames(opts.env)) + 1
        /\ envp[n] = NULL
        /\ \A nm \in EnvNames(opts.env) :
             \E i \in 1..(n - 1) : \E v \in EnvValues(opts.env, nm) :
               envp[i] = nm \o "=" \o v

(***************************************************************************)
(* merge on its own, over pairs of NULL-terminated arrays: applied once,   *)
(* and once more to its own result with the same second array.             *)
(***************************************************************************)
\* First arrays: safe_env, an empty array, and one that repeats a name.
FirstEnvs ==
  { safe_env,
    << NullEntry >>,
    << [name |-> "TERM", value |-> "xterm"], [name |-> "TERM", value |-> "dumb"], NullEntry >> }

InitMerge ==
  /\ frame \in [ pc : { "once" }, env1 : FirstEnvs,
                 env2 : { e \o << NullEntry >> : e \in UserEnvs },
                 once : { << >> }, twice : { << >> } ]
  /\ opts = DefaultOptions
  /\ prog = ChildProgram(opts)
  /\ errno = 0
  /\ ppc = "wait" /\ ret = Some(0) /\ pstatus = None /\ ptrace = ParentTraceOfSuccess
  /\ pipe = 0 /\ rd = {} /\ wr = {"child"}
  /\ cpc = "run" /\ cidx = 1 /\ ctrace = << >> /\ cexit = None
  /\ filter = [loaded |-> FALSE, rules |-> {}]
  /\ faults = 0
  /\ host = << >> /\ boxes = << >> /\ cgroupfs = << >>

\* once = merge(env1, env2)
merge_once ==
  /\ frame.pc = "once"
  /\ frame' = [frame EXCEPT !.pc = "twice", !.once = merge(frame.env1, frame.env2)]
  /\ EnvFrame

\* twice = merge(once, env2)
merge_twice ==
  /\ frame.pc = "twice"
  /\ frame' = [frame EXCEPT !.pc = "done", !.twice = merge(frame.once, frame.env2)]
  /\ EnvFrame

NextMerge == merge_once \/ merge_twice

SpecMerge == InitMerge /\ [][NextMerge]_vars

\* C25: merging the second array into the result of a merge with that same
\* array gives the same names and values in the same order as the first
\* merge did, whether or not an array repeats a name.
C25_MergeIdempotent ==
  frame.pc = "done" => frame.twice = frame.once

\* A user array that gives TERM twice, merged into safe_env.
C25_Witness_RepeatedName ==
  /\ frame.pc = "done"
  /\ frame.env1 = safe_env
  /\ frame.env2 = << [name |-> "TERM", value |-> "vt100"], [name |-> "TERM", value |-> "bar"],
                     NullEntry >>
  /\ Len(frame.twice) = 4
  /\ frame.twice[3] = [name |-> "TERM", value |-> "bar"]

(***************************************************************************)
(* Progress (checked on FairSpec).                                         *)
(***************************************************************************)
\* Every step of the parent went well and spawn has returned 0.
ParentSucceeded ==
  /\ ret = Some(0)
  /\ Succeeded("barrier_write")
  /\ \A i \in 1..Len(ptrace) : ptrace[i].res = "ok"

\* C26: with parent and child both scheduled fairly, once every parent step
\* has succeeded the child's barrier read returns, and the child reaches
\* execve or ends with exit code 127 (it waits for the veth end no longer than
\* its one sleep); and once the child has ended, microbox_sandbox_wait
\* returns and the supervisor ends.
C26_ChildAndWaitTerminate ==
  /\ ParentSucceeded ~> (cpc \notin { "none", "barrier" })
  /\ ParentSucceeded ~> (ChildDid("execve") \/ (cpc = "exited" /\ cexit = Some(127)))
  /\ (cpc = "exited") ~> (ppc = "exited")

(***************************************************************************)
(* cli_parse_options: the --mount-ro and --mount-rw loops and the policy   *)
(* check that follows them.  A string is the sequence of its characters.   *)
(* opts is the structure o the parser fills in; frame holds the argument   *)
(* strings argtable has collected and the loop index.                      *)
(***************************************************************************)
MaxArgLen == 3   \* characters of a HOST:DEST argument

MountChars == { "/", "d", ":" }

\* Every non-empty HOST:DEST argument of up to MaxArgLen characters.
MountArgs == SeqsUpTo(MountChars, MaxArgLen) \ { << >> }

\* The arguments of one option on a command line: none or one.
MountArgLists == { << >> } \cup { << a >> : a \in MountArgs }

\* strchr(s, ch): the position of the first ch in s, 0 for NULL.
strchr(s, ch) ==
  IF \E i \in 1..Len(s) : s[i] = ch
  THEN CHOOSE i \in 1..Len(s) : s[i] = ch /\ \A k \in 1..(i - 1) : s[k] # ch
  ELSE 0

\* !c || c == spec || !c[1]
bad_mount(spec) ==
  LET c == strchr(spec, ":")
  IN  c = 0 \/ c = 1 \/ c = Len(spec)

\* host = xstrndup(spec, c - spec); dest = xstrdup(c + 1)
mount_host(spec) == SubSeq(spec, 1, strchr(spec, ":") - 1)
mount_dest(spec) == SubSeq(spec, strchr(spec, ":") + 1, Len(spec))

InitMounts ==
  /\ opts \in { [DefaultOptions EXCEPT !.fs_mode = f] : f \in { "FS_TMPFS", "FS_HOST" } }
  /\ frame \in [ pc : { "mount_ro" }, i : { 1 }, opt_mro : MountArgLists, opt_mrw : MountArgLists ]
  /\ prog = << >>
  /\ errno = 0
  /\ ppc = "parse" /\ ret = None /\ pstatus = None /\ ptrace = << >>
  /\ pipe = 0 /\ rd = {} /\ wr = {}
  /\ cpc = "none" /\ cidx = 1 /\ ctrace = << >> /\ cexit = None
  /\ filter = [loaded |-> FALSE, rules |-> {}]
  /\ faults = 0
  /\ host = << >> /\ boxes = << >> /\ cgroupfs = << >>

ParseFrame == UNCHANGED <<prog, errno, ret, ptrace, pipe, rd, wr, cvars, faults,
                          host, boxes, cgroupfs>>

\* exit(EXIT_FAILURE)
parse_exit_failure ==
  /\ ppc' = "exited"
  /\ pstatus' = Some(1)
  /\ frame' = [frame EXCEPT !.pc = "exited"]
  /\ UNCHANGED opts

\* One turn of the --mount-ro loop, or its end.
parse_mount_ro ==
  /\ frame.pc = "mount_ro"
  /\ IF frame.i > Len(frame.opt_mro)
     THEN /\ frame' = [frame EXCEPT !.pc = "mount_rw", !.i = 1]
          /\ UNCHANGED <<opts, ppc, pstatus>>
     ELSE LET spec == frame.opt_mro[frame.i]
          IN  IF bad_mount(spec)
              THEN parse_exit_failure
              ELSE /\ opts' = [opts EXCEPT !.mounts =
                                 Append(@, [host |-> mount_host(spec),
                                            dest |-> mount_dest(spec), mode |-> "MNT_RO"])]
                   /\ frame' = [frame EXCEPT !.i = @ + 1]
                   /\ UNCHANGED <<ppc, pstatus>>
  /\ ParseFrame

\* One turn of the --mount-rw loop, or its end.
parse_mount_rw ==
  /\ frame.pc = "mount_rw"
  /\ IF frame.i > Len(frame.opt_mrw)
     THEN /\ frame' = [frame EXCEPT !.pc = "policy", !.i = 1]
          /\ UNCHANGED <<opts, ppc, pstatus>>
     ELSE LET spec == frame.opt_mrw[frame.i]
          IN  IF bad_mount(spec) \/ mount_dest(spec)[1] # "/"
              THEN parse_exit_failure
              ELSE /\ opts' = [opts EXCEPT !.mounts =
                                 Append(@, [host |-> mount_host(spec),
                                            dest |-> mount_dest(spec), mode |-> "MNT_RW"])]
                   /\ frame' = [frame EXCEPT !.i = @ + 1]
                   /\ UNCHANGED <<ppc, pstatus>>
  /\ ParseFrame

\* The cross-option check, then return (o).
parse_policy ==
  /\ frame.pc = "policy"
  /\ IF opts.fs_mode = "FS_HOST" /\ Len(opts.mounts) > 0
     THEN parse_exit_failure
     ELSE /\ frame' = [frame EXCEPT !.pc = "returned"]
          /\ ppc' = "spawn"
          /\ UNCHANGED <<opts, pstatus>>
  /\ ParseFrame

NextMounts == parse_mount_ro \/ parse_mount_rw \/ parse_policy

SpecMounts == InitMounts /\ [][NextMounts]_vars

\* A well-formed HOST:DEST argument whose DEST does not start with '/'.
RelativeDest(spec) ==
  \E c \in 2..(Len(spec) - 1) :
    /\ spec[c] = ":"
    /\ \A k \in 1..(c - 1) : spec[k] # ":"
    /\ spec[c + 1] # "/"

\* C27: every mount of the options the parser returns, read-only or
\* read-write, has a dest that starts with '/'; a command line with a mount
\* argument whose dest is relative ends the parse with exit code 1.
C27_MountDestAbsolute ==
  /\ frame.pc = "returned" =>
       \A i \in 1..Len(opts.mounts) : opts.mounts[i].dest[1] = "/"
  /\ (frame.pc \in { "returned", "exited" }
      /\ \E a \in Range(frame.opt_mro) \cup Range(frame.opt_mrw) : RelativeDest(a)) =>
       /\ frame.pc = "exited"
       /\ pstatus = Some(1)

(***************************************************************************)
(* microbox_bind_mount(base, spec), call by call, with mkdirp and          *)
(* maybe_mkdir.  A path is the sequence of its components, each a name     *)
(* with its length in characters; "/box/d" is << box, d >>.  frame holds   *)
(* the arguments, the locals, the directory tree under base and the mount  *)
(* calls that succeeded.                                                   *)
(***************************************************************************)
PATH_MAX == 4096

Comp(name, len) == [n |-> name, len |-> len]

\* strlen of a path: one '/' and the name, per component.
RECURSIVE PathLen(_)
PathLen(path) == IF path = << >> THEN 0 ELSE 1 + Head(path).len + PathLen(Tail(path))

\* The first room characters of a path: whole components while they fit, then
\* the first characters of the next one (a name of its own).  A '/' left at
\* the end names the same file as the path without it.
RECURSIVE Truncated(_, _)
Truncated(path, room) ==
  IF path = << >> \/ room <= 1 THEN << >>
  ELSE IF 1 + Head(path).len <= room
       THEN << Head(path) >> \o Truncated(Tail(path), room - 1 - Head(path).len)
       ELSE << Comp(Head(path).n, room - 1) >>

\* snprintf(target, sizeof(target), "%s%s", base, spec->dest): at most
\* PATH_MAX - 1 characters are stored; the value returned is not negative.
snprintf_target(base, dest) == Truncated(base \o dest, PATH_MAX - 1)

\* dirname(target)
dirname(path) == SubSeq(path, 1, Len(path) - 1)

\* The base the child builds its root in, and the dests of the model: one
\* and two components, and sixteen components of 255 characters.
BoxBase == << Comp("box", 3) >>

LongDest == [i \in 1..16 |-> Comp("L", 255)]

BindDests == { << Comp("d", 1) >>, << Comp("d", 1), Comp("e", 1) >>, LongDest }

\* What stat() finds at spec->host.
HostTypes == { "missing", "dir", "reg", "chr", "blk", "fifo", "sock" }

Mountable == { "reg", "chr", "blk" }

\* The tree under base before the call: base alone, or /box/d left there by
\* an earlier mount as a directory or as a file.
Entry(path, type) == [path |-> path, type |-> type]

BindTrees ==
  { { Entry(BoxBase, "dir") } \cup extra :
      extra \in { {}, { Entry(BoxBase \o << Comp("d", 1) >>, "dir") },
                      { Entry(BoxBase \o << Comp("d", 1) >>, "reg") } } }

TypeAt(tree, path) ==
  IF \E e \in tree : e.path = path
  THEN (CHOOSE e \in tree : e.path = path).type
  ELSE "missing"

InitBindMount ==
  /\ frame \in [ pc : { "enter" }, base : { BoxBase },
                 host : HostTypes, dest : BindDests, mode : { "MNT_RO", "MNT_RW" },
                 tree : BindTrees, target : { << >> }, mk : { << >> }, k : { 1 },
                 mounts : { << >> }, failed : { "none" }, ret : { None } ]
  /\ opts = DefaultOptions
  /\ prog = ChildProgram(opts)
  /\ errno = 0
  /\ ppc = "wait" /\ ret = Some(0) /\ pstatus = None /\ ptrace = ParentTraceOfSuccess
  /\ pipe = 0 /\ rd = {} /\ wr = {"child"}
  /\ cpc = "run" /\ cidx = 1 /\ ctrace = << >> /\ cexit = None
  /\ filter = [loaded |-> FALSE, rules |-> {}]
  /\ faults = 0
  /\ host = << >> /\ boxes = << >> /\ cgroupfs = << >>

\* return (-1) after the call named failed.
BindFail(call) == frame' = [frame EXCEPT !.pc = "returned", !.ret = Some(-1), !.failed = call]

\* The NULL test, snprintf, stat and the test of st_mode.
bind_mount_stat ==
  /\ frame.pc = "enter"
  /\ LET target == snprintf_target(frame.base, frame.dest)
     IN  CASE frame.host = "missing" -> BindFail("stat")
           [] frame.host = "dir" ->
                frame' = [frame EXCEPT !.pc = "mkdirp", !.target = target, !.mk = target]
           [] frame.host \in Mountable ->
                frame' = [frame EXCEPT !.pc = "mkdirp", !.target = target,
                                       !.mk = dirname(target)]
           [] OTHER -> BindFail("st_mode")
  /\ EnvFrame

\* maybe_mkdir(path) on the tree: mkdir makes the directory when its parent is
\* one and nothing is at path; when something is there (EEXIST) the call goes
\* well only for a directory.  The result is the new tree, or << >> on -1.
maybe_mkdir(tree, path) ==
  CASE TypeAt(tree, path) = "dir" -> << tree >>
    [] TypeAt(tree, path) # "missing" -> << >>
    [] TypeAt(tree, dirname(path)) = "dir" -> << tree \cup { Entry(path, "dir") } >>
    [] OTHER -> << >>

\* One turn of the loop of mkdirp (the last one is the call after the loop);
\* mkdir can also fail for a reason of its own.
bind_mount_mkdirp ==
  /\ frame.pc = "mkdirp"
  /\ LET made == maybe_mkdir(frame.tree, SubSeq(frame.mk, 1, frame.k))
     IN  \/ /\ made # << >>
            /\ frame' = [frame EXCEPT
                           !.tree = made[1],
                           !.k = IF frame.k < Len(frame.mk) THEN frame.k + 1 ELSE 1,
                           !.pc = IF frame.k < Len(frame.mk) THEN "mkdirp"
                                  ELSE IF frame.host = "dir" THEN "mount" ELSE "open"]
         \/ BindFail("mkdirp")
  /\ EnvFrame

\* open(target, O_CREAT, 0644) and close: an empty file is made when nothing
\* is at target; a directory there gives EISDIR.
bind_mount_open ==
  /\ frame.pc = "open"
  /\ \/ /\ TypeAt(frame.tree, frame.target) # "dir"
        /\ frame' = [frame EXCEPT
                       !.pc = "mount",
                       !.tree = IF TypeAt(frame.tree, frame.target) = "missing"
                                THEN @ \cup { Entry(frame.target, "reg") } ELSE @]
     \/ BindFail("open")
  /\ EnvFrame

\* mount(spec->host, target, NULL, MS_BIND | MS_REC, NULL)
bind_mount_mount ==
  /\ frame.pc = "mount"
  /\ \/ frame' = [frame EXCEPT
                    !.mounts = Append(@, [op |-> "bind", target |-> frame.target]),
                    !.pc = IF frame.mode = "MNT_RO" THEN "remount" ELSE "returned",
                    !.ret = IF frame.mode = "MNT_RO" THEN None ELSE Some(0)]
     \/ BindFail("mount")
  /\ EnvFrame

\* mount(NULL, target, NULL, MS_BIND | MS_REMOUNT | MS_RDONLY | MS_NOSUID, 0)
bind_mount_remount ==
  /\ frame.pc = "remount"
  /\ \/ frame' = [frame EXCEPT
                    !.mounts = Append(@, [op |-> "remount_ro", target |-> frame.target]),
                    !.pc = "returned", !.ret = Some(0)]
     \/ BindFail("remount")
  /\ EnvFrame

NextBindMount ==
  \/ bind_mount_stat
  \/ bind_mount_mkdirp
  \/ bind_mount_open
  \/ bind_mount_mount
  \/ bind_mount_remount

SpecBindMount == InitBindMount /\ [][NextBindMount]_vars

\* Every directory on the way to path, path left out, is there.
ParentsThere(tree, path) ==
  \A k \in 1..(Len(path) - 1) : TypeAt(tree, SubSeq(path, 1, k)) = "dir"

\* The mount calls that have gone well.
BindsDone == { i \in 1..Len(frame.mounts) : frame.mounts[i].op = "bind" }

\* C28: a bind mount is made only of a host path that is a directory, a
\* regular file or a character or block device, only onto base+dest, and only
\* once base+dest is there with its parents (a directory for a directory, a
\* file for a file or device); when the host path is of such a type and the
\* target could be made, the call makes the mount or fails in mount(); for
\* a host path that is missing or of another type it returns -1 with nothing
\* mounted; an RO spec has its bind mount followed by the read-only remount,
\* an RW spec has no remount, and the call returns 0 exactly when every
\* mount call it had to make went well.
C28_BindMountByHostType ==
  LET full == frame.base \o frame.dest
      okType == frame.host \in { "dir" } \cup Mountable
  IN  /\ \A i \in 1..Len(frame.mounts) : frame.mounts[i].target = full
      /\ BindsDone # {} =>
           /\ okType
           /\ ParentsThere(frame.tree, full)
           /\ TypeAt(frame.tree, full) = (IF frame.host = "dir" THEN "dir" ELSE "reg")
      /\ frame.pc = "returned" =>
           /\ ~ okType => frame.ret = Some(-1) /\ frame.mounts = << >>
           /\ (okType /\ frame.failed \notin { "mkdirp", "open", "mount" }) => BindsDone = { 1 }
           /\ (frame.ret = Some(0)) =
                (frame.mounts = IF frame.mode = "MNT_RO"
                                THEN << [op |-> "bind", target |-> full],
                                        [op |-> "remount_ro", target |-> full] >>
                                ELSE << [op |-> "bind", target |-> full] >>)
           /\ frame.failed = "remount" => frame.ret = Some(-1) /\ frame.mode = "MNT_RO"

(***************************************************************************)
(* parse_memory and the --memory lines of cli_parse_options.  A uint64_t   *)
(* is kept in full: a number is six digits in base 65536, lowest first     *)
(* (96 bits, enough for any product of the model before it is cut to 64).  *)
(* An argument is its decimal digits and the characters that follow them.  *)
(***************************************************************************)
ERANGE == 34

Big(n) == << n % 65536, n \div 65536, 0, 0, 0, 0 >>

\* x * m + a for 0 <= m <= 1024 and 0 <= a < 65536; what passes the sixth
\* digit is dropped.
BigMulAdd(x, m, a) ==
  LET v1 == x[1] * m + a
      v2 == x[2] * m + (v1 \div 65536)
      v3 == x[3] * m + (v2 \div 65536)
      v4 == x[4] * m + (v3 \div 65536)
      v5 == x[5] * m + (v4 \div 65536)
      v6 == x[6] * m + (v5 \div 65536)
  IN  << v1 % 65536, v2 % 65536, v3 % 65536, v4 % 65536, v5 % 65536, v6 % 65536 >>

\* x \div m for 0 < m <= 1024.
BigDiv(x, m) ==
  LET v6 == x[6]
      v5 == (v6 % m) * 65536 + x[5]
      v4 == (v5 % m) * 65536 + x[4]
      v3 == (v4 % m) * 65536 + x[3]
      v2 == (v3 % m) * 65536 + x[2]
      v1 == (v2 % m) * 65536 + x[1]
  IN  << v1 \div m, v2 \div m, v3 \div m, v4 \div m, v5 \div m, v6 \div m >>

\* a > b
BigGreater(a, b) ==
  \E i \in 1..6 : a[i] > b[i] /\ \A k \in (i + 1)..6 : a[k] = b[k]

\* The value fits a uint64_t; the value cut to 64 bits.
Fits64(x) == x[5] = 0 /\ x[6] = 0
Low64(x) == [x EXCEPT ![5] = 0, ![6] = 0]

UINT64_MAX == << 65535, 65535, 65535, 65535, 0, 0 >>

\* The number a string of decimal digits writes.
RECURSIVE BigOfDigits(_)
BigOfDigits(ds) ==
  IF ds = << >> THEN Big(0)
  ELSE BigMulAdd(BigOfDigits(SubSeq(ds, 1, Len(ds) - 1)), 10, ds[Len(ds)])

\* x * 1024^k and x \div 1024^k
RECURSIVE Times1024(_, _)
Times1024(x, k) == IF k = 0 THEN x ELSE Times1024(BigMulAdd(x, 1024, 0), k - 1)

RECURSIVE Over1024(_, _)
Over1024(x, k) == IF k = 0 THEN x ELSE Over1024(BigDiv(x, 1024), k - 1)

\* strtoull(memory, &endptr, 10) on digits followed by other characters: the
\* value, or ULLONG_MAX with errno = ERANGE when it does not fit; endptr is
\* left behind the digits.  errno is set on overflow only.
strtoull(ds, e) ==
  IF Fits64(BigOfDigits(ds))
  THEN [result |-> BigOfDigits(ds), errno |-> e]
  ELSE [result |-> UINT64_MAX, errno |-> ERANGE]

\* The multiplier the if-chain on *endptr gives, as the number of factors
\* 1024 the source writes (0: multiplier 1), or -1 for "return (0)".  *endptr
\* is the first character behind the digits, '\0' when there is none.
multiplier_of(rest) ==
  LET c == IF rest = << >> THEN "\\0" ELSE rest[1]
  IN  CASE c \in { "k", "K" } -> 1
        [] c \in { "m", "M" } -> 2
        [] c \in { "g", "G" } -> 3
        [] c \in { "b", "B", "\\0" } -> 0
        [] OTHER -> -1

\* parse_memory(memory) for a non-NULL argument, errno being e at the call.
parse_memory(ds, rest, e) ==
  LET s == strtoull(ds, e)
      k == multiplier_of(rest)
  IN  IF s.result = UINT64_MAX /\ s.errno = ERANGE THEN Big(0)
      ELSE IF k = -1 THEN Big(0)
      ELSE IF k > 0 /\ BigGreater(s.result, Over1024(UINT64_MAX, k)) THEN Big(0)
      ELSE Low64(Times1024(s.result, k))

\* The arguments: 0, 2, 1024, 2^54 - 1, 2^54, 2^64 - 1 and 2^64 in decimal,
\* and no digit at all; nothing, a known letter, an unknown one, or two
\* characters behind them.
MemoryDigits ==
  { << >>, << 0 >>, << 2 >>, << 1, 0, 2, 4 >>,
    << 1, 8, 0, 1, 4, 3, 9, 8, 5, 0, 9, 4, 8, 1, 9, 8, 3 >>,
    << 1, 8, 0, 1, 4, 3, 9, 8, 5, 0, 9, 4, 8, 1, 9, 8, 4 >>,
    << 1, 8, 4, 4, 6, 7, 4, 4, 0, 7, 3, 7, 0, 9, 5, 5, 1, 6, 1, 5 >>,
    << 1, 8, 4, 4, 6, 7, 4, 4, 0, 7, 3, 7, 0, 9, 5, 5, 1, 6, 1, 6 >> }

MemorySuffixes ==
  { << >>, << "b" >>, << "B" >>, << "k" >>, << "K" >>, << "m" >>, << "M" >>,
    << "g" >>, << "G" >>, << "x" >>, << "k", "b" >>, << "g", "x" >> }

\* opts.memory is the parsed limit, a uint64_t; frame holds the argument.
InitMemory ==
  /\ frame \in [ pc : { "memory" }, digits : MemoryDigits, rest : MemorySuffixes,
                 memory : { Big(0) } ]
  /\ errno \in { 0, ERANGE }
  /\ opts = DefaultOptions
  /\ prog = << >>
  /\ ppc = "parse" /\ ret = None /\ pstatus = None /\ ptrace = << >>
  /\ pipe = 0 /\ rd = {} /\ wr = {}
  /\ cpc = "none" /\ cidx = 1 /\ ctrace = << >> /\ cexit = None
  /\ filter = [loaded |-> FALSE, rules |-> {}]
  /\ faults = 0
  /\ host = << >> /\ boxes = << >> /\ cgroupfs = << >>

\* o.memory = parse_memory(opt_mem->sval[0]); exit(EXIT_FAILURE) when it is 0.
cli_parse_memory ==
  /\ frame.pc = "memory"
  /\ LET m == parse_memory(frame.digits, frame.rest, errno)
     IN  /\ errno' = strtoull(frame.digits, errno).errno
         /\ IF m = Big(0)
            THEN /\ frame' = [frame EXCEPT !.pc = "exited", !.memory = m]
                 /\ ppc' = "exited"
                 /\ pstatus' = Some(1)
            ELSE /\ frame' = [frame EXCEPT !.pc = "mount_proc", !.memory = m]
                 /\ UNCHANGED <<ppc, pstatus>>
  /\ UNCHANGED <<opts, prog, ret, ptrace, pipe, rd, wr, cvars, faults, host, boxes, cgroupfs>>

\* The parser goes on to its next option and returns.
cli_parse_rest ==
  /\ frame.pc = "mount_proc"
  /\ frame' = [frame EXCEPT !.pc = "returned"]
  /\ ppc' = "spawn"
  /\ UNCHANGED <<opts, prog, errno, ret, pstatus, ptrace, pipe, rd, wr, cvars, faults,
                 host, boxes, cgroupfs>>

NextMemory == cli_parse_memory \/ cli_parse_rest

SpecMemory == InitMemory /\ [][NextMemory]_vars

\* The factors 1024 of a suffix the specification knows; -1 for any other.
SuffixFactors(rest) ==
  CASE rest \in { << >>, << "b" >>, << "B" >> } -> 0
    [] rest \in { << "k" >>, << "K" >> } -> 1
    [] rest \in { << "m" >>, << "M" >> } -> 2
    [] rest \in { << "g" >>, << "G" >> } -> 3
    [] OTHER -> -1

\* C29: for an argument of decimal digits and a suffix, once the --memory
\* lines are done the limit stored is digits times 1 (no suffix, b, B), 1024
\* (k, K), 1024^2 (m, M) or 1024^3 (g, G) when that product fits 64 bits (2G
\* gives 2147483648), and the parse has ended with exit code 1 when it does
\* not fit or the suffix is anything else.
C29_MemoryLimitParsed ==
  (frame.pc # "memory" /\ frame.digits # << >>) =>
    LET k == SuffixFactors(frame.rest)
        product == Times1024(BigOfDigits(frame.digits), IF k < 0 THEN 0 ELSE k)
    IN  /\ IF k >= 0 /\ Fits64(product)
           THEN frame.pc # "exited" /\ frame.memory = product
           ELSE frame.pc = "exited" /\ pstatus = Some(1)
        /\ (frame.digits = << 2 >> /\ frame.rest = << "G" >>) =>
             frame.memory = << 0, 32768, 0, 0, 0, 0 >>

(***************************************************************************)
(* main in microbox_sandbox_wait and the child at the barrier.             *)
(***************************************************************************)
\* C30: in every reachable state in which main has entered
\* microbox_sandbox_wait the barrier byte has been written, so the child is
\* never left blocked on the barrier read while main waits for it.
C30_WaitOnlyAfterBarrier ==
  ppc = "wait" => Succeeded("barrier_write")

(***************************************************************************)
(* Two bridge-mode spawns at once on one host, call by call: the parents   *)
(* of the sandboxes of Sandboxes are separate processes, and the kernel    *)
(* serves their requests one at a time in any order.  frame[b] is where    *)
(* the parent of b is in microbox_setup_bridge_network and                 *)
(* move_veth_to_container, and the call that made it fail.                 *)
(***************************************************************************)
RaceSteps ==
  << "check", "create_bridge", "newlink", "add_ip", "set_up", "setup_nat",
     "veth_create", "veth_master", "veth_up", "move", "done" >>

InitRace ==
  /\ opts = DefaultOptions
  /\ errno = 0
  /\ prog = << >>
  /\ ppc = "spawn" /\ ret = None /\ pstatus = None /\ ptrace = << >>
  /\ pipe = 0 /\ rd = {} /\ wr = {}
  /\ cpc = "none" /\ cidx = 1 /\ ctrace = << >> /\ cexit = None
  /\ filter = [loaded |-> FALSE, rules |-> {}]
  /\ faults = 0
  /\ host \in { [FreshHost EXCEPT !.firewall = t] : t \in FirewallTools }
  /\ boxes = << >>
  /\ cgroupfs = << >>
  /\ frame \in { [b \in Sandboxes |-> [pc |-> "check", pid |-> p[b], call |-> "none"]] :
                   p \in { q \in [Sandboxes -> Pids] : q["a"] = 5 /\ q["b"] > 5 } }

RaceFrame ==
  UNCHANGED <<opts, prog, pvars, pipe, rd, wr, cvars, faults, boxes, cgroupfs>>

\* The parent of b goes on to the step next, or fails in the call named.
RaceGoto(b, next) == frame' = [frame EXCEPT ![b].pc = next]
RaceFail(b, call) == frame' = [frame EXCEPT ![b].pc = "failed", ![b].call = call]

\* One netlink call of the parent of b: on to next when the kernel accepts
\* it, return -1 from spawn when it refuses.
RaceCall(b, at, op, arg, call, next) ==
  /\ frame[b].pc = at
  /\ LET k == Kernel(host, op, arg)
     IN  /\ host' = k.h
         /\ IF k.ok THEN RaceGoto(b, next) ELSE RaceFail(b, call)
  /\ RaceFrame

\* ensure_bridge_exists: the existence check on its own handle.
race_check(b) ==
  /\ frame[b].pc = "check"
  /\ LET config == generate_interface_names(frame[b].pid)
     IN  IF netlink_interface_exists(host, config.bridge_name, "none") = 1
         THEN RaceGoto(b, "setup_nat")
         ELSE RaceGoto(b, "create_bridge")
  /\ UNCHANGED host
  /\ RaceFrame

\* netlink_create_bridge, first half: an interface of that name is success.
race_create_bridge(b) ==
  /\ frame[b].pc = "create_bridge"
  /\ LET config == generate_interface_names(frame[b].pid)
     IN  IF netlink_interface_exists(host, config.bridge_name, "none") = 1
         THEN RaceGoto(b, "add_ip")
         ELSE RaceGoto(b, "newlink")
  /\ UNCHANGED host
  /\ RaceFrame

\* netlink_create_bridge, second half: RTM_NEWLINK with NLM_F_CREATE |
\* NLM_F_EXCL, which the kernel answers with EEXIST for a name in use.
race_newlink(b) ==
  /\ frame[b].pc = "newlink"
  /\ LET config == generate_interface_names(frame[b].pid)
     IN  IF config.bridge_name \in host.links
         THEN /\ RaceFail(b, "netlink_create_bridge")
              /\ UNCHANGED host
         ELSE /\ host' = [host EXCEPT !.links = @ \cup {config.bridge_name}]
              /\ RaceGoto(b, "add_ip")
  /\ RaceFrame

race_add_ip(b) ==
  LET config == generate_interface_names(frame[b].pid)
  IN  RaceCall(b, "add_ip", "netlink_add_ip_address",
               [iface |-> config.bridge_name, ip |-> config.bridge_ip],
               "bridge.netlink_add_ip_address", "set_up")

race_set_up(b) ==
  LET config == generate_interface_names(frame[b].pid)
  IN  RaceCall(b, "set_up", "netlink_set_interface_up", config.bridge_name,
               "bridge.netlink_set_interface_up", "setup_nat")

\* setup_nat, taken as a whole.
race_setup_nat(b) ==
  /\ frame[b].pc = "setup_nat"
  /\ LET config == generate_interface_names(frame[b].pid)
         r == Run(host, setup_nat(config, "none"), "none", << >>)
     IN  /\ host' = r.h
         /\ IF r.ret = 0 THEN RaceGoto(b, "veth_create") ELSE RaceFail(b, "setup_nat")
  /\ RaceFrame

race_veth_create(b) ==
  LET config == generate_interface_names(frame[b].pid)
  IN  RaceCall(b, "veth_create", "netlink_create_veth_pair",
               << config.veth_host, config.veth_container >>,
               "netlink_create_veth_pair", "veth_master")

race_veth_master(b) ==
  LET config == generate_interface_names(frame[b].pid)
  IN  RaceCall(b, "veth_master", "netlink_set_interface_master",
               [iface |-> config.veth_host, master |-> config.bridge_name],
               "netlink_set_interface_master", "veth_up")

race_veth_up(b) ==
  LET config == generate_interface_names(frame[b].pid)
  IN  RaceCall(b, "veth_up", "netlink_set_interface_up", config.veth_host,
               "veth.netlink_set_interface_up", "move")

race_move(b) ==
  LET config == generate_interface_names(frame[b].pid)
  IN  RaceCall(b, "move", "netlink_move_interface_to_netns",
               [pid |-> frame[b].pid, iface |-> config.veth_container],
               "netlink_move_interface_to_netns", "done")

NextRace ==
  \E b \in Sandboxes :
    \/ race_check(b)
    \/ race_create_bridge(b)
    \/ race_newlink(b)
    \/ race_add_ip(b)
    \/ race_set_up(b)
    \/ race_setup_nat(b)
    \/ race_veth_create(b)
    \/ race_veth_master(b)
    \/ race_veth_up(b)
    \/ race_move(b)

SpecBridgeRace == InitRace /\ [][NextRace]_vars

\* The calls that create, address and bring up the bridge.
BridgeCalls ==
  { "netlink_create_bridge", "bridge.netlink_add_ip_address",
    "bridge.netlink_set_interface_up" }

\* Both spawns have returned.
RaceOver == \A b \in Sandboxes : frame[b].pc \in { "done", "failed" }

\* C31: two bridge-mode spawns run at once on a host without microbox0: in
\* every interleaving of their existence checks and their create, address
\* and set-up requests, neither fails in a call that creates, addresses or
\* brings up the bridge, and when both have returned there is exactly one
\* bridge microbox0, with the one address 172.20.0.1.
C31_ConcurrentBridgeCreation ==
  /\ \A b \in Sandboxes :
       frame[b].pc = "failed" => frame[b].call \notin BridgeCalls
  /\ RaceOver =>
       /\ Bridges(host) = { microbox0 }
       /\ BridgeAddrs(host) = { [iface |-> microbox0, ip |-> << 172, 20, 0, 1 >>] }

(***************************************************************************)
(* The veth pairs of two bridge-mode sandboxes alive together (SpecHost).  *)
(***************************************************************************)
\* b is a live bridge-mode sandbox: its spawn has succeeded and its child
\* runs.
LiveBridge(b) ==
  /\ boxes[b].net_mode = "NET_BRIDGE"
  /\ boxes[b].sret = Some(0)
  /\ boxes[b].child = "running"

Congruent(x, y) == boxes[x].pid % 254 = boxes[y].pid % 254

\* The veth pairs of host h whose container end is in the net namespace of
\* the child pid.
PairsOf(h, pid) == { p \in h.peers : p[2] \in InNetns(h, pid) }

\* What host h holds about the veth pair the parent of b derives from its
\* child PID.
VethState(h, b) ==
  LET config == generate_interface_names(boxes[b].pid)
  IN [ links  |-> h.links \cap { config.veth_host, config.veth_container },
       peers  |-> { p \in h.peers : p[1] = config.veth_host },
       up     |-> h.up \cap { config.veth_host },
       master |-> { m \in h.master : m.iface = config.veth_host },
       netns  |-> { n \in h.netns : n.iface = config.veth_container },
       caddrs |-> { c \in h.caddrs : c.iface = config.veth_container } ]

\* The parent of y returns from microbox_sandbox_spawn in this step.
Spawns(y) == boxes[y].sret = None /\ boxes'[y].sret # None

\* Every call the spawn of y made before creating the veth pair succeeded
\* or was one the code carries on after.
ReachedVeth(calls) ==
  CallsOf(calls, "netlink_create_veth_pair") # {}

C33_NoVethAfterFailedSpawn ==
  \A b \in Sandboxes :
    (boxes[b].sup = "failed" /\ boxes[b].exitcode # None) =>
      \A name \in CreatedVeth(boxes[b]) :
        /\ name \notin host.links
        /\ \A p \in host.peers : p[1] # name

(***************************************************************************)
(* The firewall rules after bridge-mode spawns (SpecHost).                 *)
(***************************************************************************)
\* The rules of host h that ok accepts, as positions in the rule list.
RulesWhere(h, ok(_)) == { i \in 1..Len(h.rules) : ok(h.rules[i]) }

IsMasquerade(r) ==
  /\ r.chain \in { "POSTROUTING", "postrouting" }
  /\ r.s = << 172, 20, 0, 0, 16 >>
  /\ r.j \in { "MASQUERADE", "masquerade" }

IsForwardFromBridge(r) ==
  r.chain \in { "FORWARD", "forward" } /\ r.i = microbox0 /\ r.j \in { "ACCEPT", "accept" }

IsForwardToBridge(r) ==
  r.chain \in { "FORWARD", "forward" } /\ r.o = microbox0 /\ r.j \in { "ACCEPT", "accept" }

\* Bridge-mode spawns have succeeded on the host, and none of their calls
\* failed.
BridgeSpawnsDone ==
  /\ \E b \in Sandboxes : boxes[b].net_mode = "NET_BRIDGE" /\ boxes[b].sret = Some(0)
  /\ \A b \in Sandboxes : \A i \in 1..Len(boxes[b].calls) : boxes[b].calls[i].res = "ok"

\* C34: after any number n >= 1 of successful bridge-mode spawns the
\* firewall holds exactly one masquerade rule for 172.20.0.0/16 and exactly
\* one copy of each of the two forward accept rules of the bridge.
C34_NatRulesDoNotAccumulate ==
  BridgeSpawnsDone =>
    /\ Cardinality(RulesWhere(host, IsMasquerade)) = 1
    /\ Cardinality(RulesWhere(host, IsForwardFromBridge)) = 1
    /\ Cardinality(RulesWhere(host, IsForwardToBridge)) = 1

(***************************************************************************)
(* The order of the host-side calls of a bridge-mode spawn (SpecHost).     *)
(***************************************************************************)
BridgeStage ==
  { "check.netlink_open", "netlink_interface_exists", "bridge.netlink_open",
    "netlink_create_bridge", "bridge.netlink_add_ip_address",
    "bridge.netlink_set_interface_up" }

NatStage ==
  { "nat.netlink_open", "netlink_get_default_interface", "ip_forward",
    "access_firewall", "cleanup_nat_rules", "masquerade", "forward_out",
    "forward_in" }

VethStage ==
  { "veth.netlink_open", "netlink_create_veth_pair", "netlink_set_interface_master",
    "veth.netlink_set_interface_up" }

MoveStage == { "move.netlink_open", "netlink_move_interface_to_netns" }

\* The calls a spawn makes on the host.
HostCalls == { "getuid" } \cup BridgeStage \cup NatStage \cup VethStage \cup MoveStage

\* The place of a call in the order the specification gives: bridge, veth
\* pair, NAT, move.
StatedStage ==
  [ id \in HostCalls |->
      CASE id \in BridgeStage -> 1
        [] id \in VethStage -> 2
        [] id \in NatStage -> 3
        [] id \in MoveStage -> 4
        [] OTHER -> 0 ]

\* The place of a call with NAT before the veth pair.
NatFirstStage ==
  [ id \in HostCalls |->
      CASE id \in BridgeStage -> 1
        [] id \in NatStage -> 2
        [] id \in VethStage -> 3
        [] id \in MoveStage -> 4
        [] OTHER -> 0 ]

\* The calls were made stage by stage, none left out: each call is of the
\* stage of the call before it or of the next one (getuid, before the first
\* stage, counts as stage 0).
InStageOrder(calls, stage) ==
  \A j \in 1..Len(calls) :
    LET before == IF j = 1 THEN 0 ELSE stage[calls[j - 1].id]
    IN  stage[calls[j].id] \in { before, before + 1 }

\* Call id was made, with success, before the call at position j.
OkBefore(calls, id, j) ==
  \E i \in 1..(j - 1) : calls[i].id = id /\ calls[i].res = "ok"

\* Within the veth stage: create, then master, then up; the container end is
\* moved only after the host end has its master and is up.
VethThenMove(calls) ==
  \A j \in CallsOf(calls, "netlink_set_interface_master")
           \cup CallsOf(calls, "veth.netlink_set_interface_up")
           \cup CallsOf(calls, "netlink_move_interface_to_netns") :
    /\ calls[j].id = "netlink_set_interface_master" =>
         OkBefore(calls, "netlink_create_veth_pair", j)
    /\ calls[j].id = "veth.netlink_set_interface_up" =>
         OkBefore(calls, "netlink_set_interface_master", j)
    /\ calls[j].id = "netlink_move_interface_to_netns" =>
         /\ OkBefore(calls, "netlink_set_interface_master", j)
         /\ OkBefore(calls, "veth.netlink_set_interface_up", j)

\* When the bridge is absent it is created, addressed and brought up, in
\* this order.
BridgeMade(calls) ==
  \A j \in 1..Len(calls) :
    /\ calls[j].id = "bridge.netlink_add_ip_address" =>
         OkBefore(calls, "netlink_create_bridge", j)
    /\ calls[j].id = "bridge.netlink_set_interface_up" =>
         OkBefore(calls, "bridge.netlink_add_ip_address", j)

\* C35 as stated: the host-side setup runs bridge, veth pair (create, master,
\* up), NAT and forwarding, move, in this order.
C35_StatedOrder ==
  \A b \in Sandboxes :
    /\ InStageOrder(boxes[b].calls, StatedStage)
    /\ BridgeMade(boxes[b].calls)
    /\ VethThenMove(boxes[b].calls)

\* C35: the host-side setup runs in this order: (1) ensure the bridge
\* microbox0 (create, address, up when absent), (2) NAT and forwarding
\* setup, (3) create the veth pair, set the master of the host end, bring
\* the host end up, (4) move the container end into the child's netns; the
\* container end is moved only after the host end has been enslaved to the
\* bridge and brought up.
C35_HostSetupOrder ==
  \A b \in Sandboxes :
    /\ InStageOrder(boxes[b].calls, NatFirstStage)
    /\ BridgeMade(boxes[b].calls)
    /\ VethThenMove(boxes[b].calls)

\* A bridge-mode spawn on a fresh host has made every call, the move
\* included, and has succeeded.
C35_Witness_FullSetup ==
  \E b \in Sandboxes :
    /\ boxes[b].sret = Some(0)
    /\ CallsOf(boxes[b].calls, "netlink_create_bridge") # {}
    /\ CallsOf(boxes[b].calls, "masquerade") # {}
    /\ CallsOf(boxes[b].calls, "netlink_move_interface_to_netns") # {}

(***************************************************************************)
(* The order of the /proc, /dev and user mounts in the child's trace.      *)
(***************************************************************************)
\* The targets of the user bind mounts under the new root.
UserTargets(o) ==
  { NewRoot(o) \o o.mounts[m].dest : m \in 1..Len(o.mounts) }

\* The user mount targets that lie under <base>/dev.
UnderDev(o, target) ==
  \E m \in 1..Len(o.mounts) :
    /\ target = NewRoot(o) \o o.mounts[m].dest
    /\ o.mounts[m].dest = "/dev/dataN"

IsUserMount(e) ==
  e.op = "bind_mount" /\ e.arg \in UserTargets(opts) /\ e.res = "ok"

IsProcMount(e) ==
  e.op = "mount_proc" /\ e.arg = NewRoot(opts) \o "/proc" /\ e.res = "ok"

\* The tmpfs that microbox_bind_mount_dev mounts on <base>/dev: it covers
\* whatever was visible under <base>/dev before.
IsDevMount(e) ==
  e.op = "mount_tmpfs" /\ e.arg = NewRoot(opts) \o "/dev" /\ e.res = "ok"

\* A user mount under /dev that a later mount on /dev has covered.
Shadowed(k) ==
  /\ IsUserMount(ctrace[k])
  /\ UnderDev(opts, ctrace[k].arg)
  /\ \E j \in (k + 1)..Len(ctrace) : IsDevMount(ctrace[j])

\* C36: in Tmpfs and in Rootfs mode alike, /proc is mounted before /dev and
\* both before the user bind mounts: no /proc or /dev mount follows a user
\* bind mount, so no user mount under /dev is covered by the tmpfs on /dev,
\* and each one made is in place when the payload starts.
C36_UserMountsAfterProcAndDev ==
  \A k \in 1..Len(ctrace) :
    /\ IsUserMount(ctrace[k]) =>
         \A j \in (k + 1)..Len(ctrace) :
           ~IsProcMount(ctrace[j]) /\ ~IsDevMount(ctrace[j])
    /\ IsDevMount(ctrace[k]) =>
         \A j \in (k + 1)..Len(ctrace) : ~IsProcMount(ctrace[j])
    /\ ~Shadowed(k)

(***************************************************************************)
(* The filesystem builders followed on the files they touch.  The child    *)
(* runs in a mount namespace of its own: what it mounts is gone when it    *)
(* exits, what it writes into a directory of the host's filesystems stays. *)
(* frame holds the steps of microsandbox_setup_fs, the entries of the      *)
(* host's filesystems (hostfs; host0 is what they were at the start), the  *)
(* mount points made in the namespace (mounted), the entries of the        *)
(* filesystems mounted there (boxfs), and every path at which a step made  *)
(* an entry (created).                                                     *)
(***************************************************************************)
\* The paths of the builders below the new root.
InnerTails ==
  { "/proc", "/dev", "/dev/pts", "/dev/ptmx", "/dev/shm", "/data1", "/dev/dataN",
    "/.old_root" } \cup { dev_dirs[d] : d \in 1..Len(dev_dirs) }

\* The paths of the builders below /box.
BoxTails ==
  InnerTails
  \cup { "/overlay", "/overlay/upper", "/overlay/work", "/overlay/merged" }
  \cup { "/overlay/merged" \o t : t \in InnerTails }

\* path names an entry of a directory below /box, or of /box itself.
StrictlyInsideBox(path) == \E t \in BoxTails : path = "/box" \o t

\* The filesystem that holds the entry path names: the one mounted on /box
\* (or on a directory below it) when path lies below /box and /box is a
\* mount point, else one of the host's.
OnHost(f, path) == ~(StrictlyInsideBox(path) /\ "/box" \in f.mounted)

\* A path as the kernel resolves it: absolute ones from the root of the
\* process, ".old_root" from its working directory.
Resolve(f, arg) ==
  IF arg = ".old_root" THEN f.cwd \o "/.old_root" ELSE f.root \o arg

EntryExists(f, path) ==
  IF OnHost(f, path) THEN path \in f.hostfs ELSE path \in f.boxfs

\* mkdir(path), or the creation of the file or link path names: the entry is
\* added to the filesystem that holds it.
MakeEntry(f, path) ==
  IF OnHost(f, path)
  THEN [f EXCEPT !.hostfs = @ \cup { path }, !.created = @ \cup { path }]
  ELSE [f EXCEPT !.boxfs = @ \cup { path }, !.created = @ \cup { path }]

\* rmdir(path) / unlink(path)
RemoveEntry(f, path) ==
  IF OnHost(f, path)
  THEN [f EXCEPT !.hostfs = @ \ { path }]
  ELSE [f EXCEPT !.boxfs = @ \ { path }]

\* The child is gone: so are its mount namespace and the tmpfs in it.
NamespaceGone(f, pc) ==
  [f EXCEPT !.pc = pc, !.mounted = {}, !.boxfs = {}]

FsModesBuilt == { "FS_TMPFS", "FS_ROOTFS" }

\* The host before the run: /box is there or not; the user can write into /
\* (uid 0) or not.
InitFsBuild ==
  /\ opts \in { o \in ChildOptions :
                  /\ o.fs_mode \in FsModesBuilt
                  /\ o.net_mode = "NET_NONE" /\ o.env = << >>
                  /\ o.syscalls_deny = << >> }
  /\ \E fs0 \in { { "/", "/srv" }, { "/", "/srv", "/box" } }, w \in BOOLEAN :
       frame = [ pc |-> "run", steps |-> microsandbox_setup_fs(opts), idx |-> 1,
                 hostfs |-> fs0, host0 |-> fs0, root_writable |-> w,
                 mounted |-> {}, boxfs |-> {}, created |-> {},
                 root |-> "", cwd |-> "" ]
  /\ prog = ChildProgram(opts)
  /\ errno = 0
  /\ ppc = "wait" /\ ret = Some(0) /\ pstatus = None /\ ptrace = ParentTraceOfSuccess
  /\ pipe = 0 /\ rd = {} /\ wr = {"child"}
  /\ cpc = "run" /\ cidx = 1 /\ ctrace = << >> /\ cexit = None
  /\ filter = [loaded |-> FALSE, rules |-> {}]
  /\ faults = 0
  /\ host = << >> /\ boxes = << >> /\ cgroupfs = << >>

FsAt(ops) ==
  /\ frame.pc = "run"
  /\ frame.idx <= Len(frame.steps)
  /\ frame.steps[frame.idx].op \in ops

FsNext(f) == [f EXCEPT !.idx = @ + 1]

\* The step fails: the builder returns a negative value and the child calls
\* _exit(127), or the caller does not look (the device allowlist).
FsFailed ==
  LET s == frame.steps[frame.idx]
  IN  /\ "fail" \in s.outs
      /\ frame' = IF s.fail = "skip"
                  THEN [frame EXCEPT !.idx = @ + 1 + s.skip]
                  ELSE NamespaceGone(frame, "exit127")

\* The calls that make nothing: the switch on fs_mode, mount(NULL, "/",
\* MS_PRIVATE | MS_REC), is_directory, calloc, open(O_DIRECTORY | O_RDONLY).
fs_lookup ==
  /\ FsAt({ "switch", "mount_private", "is_directory", "calloc", "open" })
  /\ \/ frame' = FsNext(frame)
     \/ FsFailed
  /\ EnvFrame

\* mkdir_safe(path): mkdir, with EEXIST taken as success.  mkdir into a
\* directory of the host fails (EACCES) when the user cannot write there.
fs_mkdir_safe ==
  /\ FsAt({ "mkdir_safe" })
  /\ LET path == Resolve(frame, frame.steps[frame.idx].arg)
     IN  \/ /\ EntryExists(frame, path)
            /\ frame' = FsNext(frame)
         \/ /\ ~EntryExists(frame, path)
            /\ OnHost(frame, path) => frame.root_writable
            /\ frame' = FsNext(MakeEntry(frame, path))
         \/ /\ ~EntryExists(frame, path)
            /\ FsFailed
  /\ EnvFrame

\* mkdir, mkdirat, mkdirp and symlink: the entry is made where the path
\* resolves (mkdirp leaves one that is there alone).
fs_make ==
  /\ FsAt({ "mkdir", "mkdirat", "mkdirp", "symlink" })
  /\ LET path == Resolve(frame, frame.steps[frame.idx].arg)
     IN  \/ /\ OnHost(frame, path) => frame.root_writable
            /\ frame' = FsNext(MakeEntry(frame, path))
         \/ FsFailed
  /\ EnvFrame

\* mount of a tmpfs, an overlay, proc or devpts on the path (devpts may be
\* refused with EINVAL, which the code takes).
fs_mount ==
  /\ FsAt({ "mount_tmpfs", "mount_overlay", "mount_proc", "mount_devpts" })
  /\ LET s == frame.steps[frame.idx]
         path == Resolve(frame, s.arg)
     IN  \/ frame' = FsNext([frame EXCEPT !.mounted = @ \cup { path }])
         \/ "tolerated" \in s.outs /\ frame' = FsNext(frame)
         \/ FsFailed
  /\ EnvFrame

\* microbox_bind_mount(base, spec): the target is made under base (a
\* directory, or an empty file), then the host path is bound on it.
fs_bind_mount ==
  /\ FsAt({ "bind_mount" })
  /\ LET path == Resolve(frame, frame.steps[frame.idx].arg)
     IN  \/ /\ OnHost(frame, path) => frame.root_writable
            /\ frame' = FsNext([MakeEntry(frame, path) EXCEPT !.mounted = @ \cup { path }])
         \/ FsFailed
  /\ EnvFrame

\* unlink(path) (its result is not looked at) and rmdir(path).
fs_remove ==
  /\ FsAt({ "unlink", "rmdir" })
  /\ LET path == Resolve(frame, frame.steps[frame.idx].arg)
     IN  \/ frame' = FsNext(RemoveEntry(frame, path))
         \/ FsFailed
  /\ EnvFrame

fs_chdir ==
  /\ FsAt({ "chdir" })
  /\ \/ frame' = FsNext([frame EXCEPT
                           !.cwd = IF frame.steps[frame.idx].arg = "/" THEN frame.root
                                   ELSE Resolve(frame, frame.steps[frame.idx].arg)])
     \/ FsFailed
  /\ EnvFrame

\* pivot_root(".", "./.old_root"): the working directory becomes the root;
\* the old root is mounted on .old_root.
fs_pivot_root ==
  /\ FsAt({ "pivot_root" })
  /\ \/ frame' = FsNext([frame EXCEPT !.root = frame.cwd,
                                      !.mounted = @ \cup { frame.cwd \o "/.old_root" }])
     \/ FsFailed
  /\ EnvFrame

\* umount2("/.old_root", MNT_DETACH)
fs_umount2 ==
  /\ FsAt({ "umount2" })
  /\ \/ frame' = FsNext([frame EXCEPT
                           !.mounted = @ \ { Resolve(frame, frame.steps[frame.idx].arg) }])
     \/ FsFailed
  /\ EnvFrame

\* The builder has returned 0: the child goes on to the payload.
fs_built ==
  /\ frame.pc = "run"
  /\ frame.idx > Len(frame.steps)
  /\ frame' = [frame EXCEPT !.pc = "payload"]
  /\ EnvFrame

\* The payload ends, and the container with it.
fs_container_exit ==
  /\ frame.pc = "payload"
  /\ frame' = NamespaceGone(frame, "exited")
  /\ EnvFrame

NextFsBuild ==
  \/ fs_lookup
  \/ fs_mkdir_safe
  \/ fs_make
  \/ fs_mount
  \/ fs_bind_mount
  \/ fs_remove
  \/ fs_chdir
  \/ fs_pivot_root
  \/ fs_umount2
  \/ fs_built
  \/ fs_container_exit

SpecFsBuild == InitFsBuild /\ [][NextFsBuild]_vars

\* C37: building the root in Tmpfs and in Rootfs mode leaves the entries of
\* the host's filesystems as they were, while the container runs and after
\* it has exited: every entry the builder makes is one of a directory below
\* /box, in the tmpfs mounted there or in a filesystem mounted below it.
C37_HostFilesystemUnchanged ==
  /\ frame.hostfs = frame.host0
  /\ \A path \in frame.created :
       /\ StrictlyInsideBox(path)
       /\ path \notin frame.hostfs

(***************************************************************************)
(* netlink.c: one handle from netlink_open to netlink_close, with the      *)
(* requests built on it (reqs), the interfaces of the namespace (links)    *)
(* and the outcome of the last call (last).                                *)
(***************************************************************************)
ENODEV == 19

MaxRequests == 2   \* requests built on one handle

LinkNames == { "microbox0", "mbx5h" }

AckFlags    == { "NLM_F_REQUEST", "NLM_F_ACK" }
CreateFlags_no_excl == { "NLM_F_REQUEST", "NLM_F_ACK", "NLM_F_CREATE" }

CreateFlags == { "NLM_F_REQUEST", "NLM_F_ACK", "NLM_F_CREATE", "NLM_F_EXCL" }
DumpFlags   == { "NLM_F_REQUEST", "NLM_F_DUMP" }

ModifyingOps ==
  { "netlink_create_bridge", "netlink_create_veth_pair", "netlink_set_interface_up",
    "netlink_set_interface_master", "netlink_add_ip_address",
    "netlink_add_default_route", "netlink_move_interface_to_netns",
    "netlink_delete_interface" }

CreationOps ==
  { "netlink_create_bridge", "netlink_create_veth_pair", "netlink_add_ip_address",
    "netlink_add_default_route" }

\* struct nlmsghdr of a request: nlmsg_type, nlmsg_flags, nlmsg_seq.
Request(op, type, flags, seq) ==
  [op |-> op, type |-> type, flags |-> flags, seq |-> seq]

\* The messages recvmsg can hand over.  The kernel answers a request that
\* carries NLM_F_ACK with one NLMSG_ERROR message, error 0 (the ACK) or a
\* negated errno.  The code looks neither at the sender of a message nor at
\* its sequence number: a datagram another process with CAP_NET_ADMIN has
\* sent to the port of the socket is read as the reply.
Ack == [type |-> "NLMSG_ERROR", error |-> 0]
NlError(e) == [type |-> "NLMSG_ERROR", error |-> 0 - e]
Foreign == [type |-> "NLMSG_NOOP", error |-> 0]

KernelReplies(links, op, name) ==
  IF op \in { "netlink_create_bridge", "netlink_create_veth_pair" } /\ name \in links
  THEN { NlError(EEXIST), Foreign }
  ELSE { Ack, NlError(EBUSY), Foreign }

\* What an acknowledged request does to the interfaces.
LinksAfter(links, op, name, reply) ==
  IF reply # Ack THEN links
  ELSE IF op \in { "netlink_create_bridge", "netlink_create_veth_pair" }
       THEN links \cup { name }
       ELSE IF op \in { "netlink_delete_interface", "netlink_move_interface_to_netns" }
            THEN links \ { name }
            ELSE links

Outcome(op, name, existed, sent, reply, r, e) ==
  [op |-> op, name |-> name, existed |-> existed, sent |-> sent, reply |-> reply,
   ret |-> r, errno |-> e, stream |-> << >>, consumed |-> 0]

\* A reply that is taken for a success whatever it holds.
netlink_reply_result_unchecked(e, reply) == [ret |-> 0, errno |-> e]

\* The test of the reply every modifying function ends with:
\*   if (resp->nlmsg_type == NLMSG_ERROR) { if (err->error != 0) {
\*     errno = -err->error; return -1; } }  return 0;
netlink_reply_result(e, reply) ==
  IF reply.type = "NLMSG_ERROR" /\ reply.error # 0
  THEN [ret |-> -1, errno |-> 0 - reply.error]
  ELSE [ret |-> 0, errno |-> e]

InitNetlink ==
  /\ \E l \in SUBSET LinkNames :
       frame = [ pc |-> "closed", seq |-> 0, reqs |-> << >>, links |-> l,
                 last |-> Outcome("none", "", FALSE, FALSE, None, 0, 0) ]
  /\ opts = [DefaultOptions EXCEPT !.net_mode = "NET_BRIDGE"]
  /\ prog = ChildProgram(opts)
  /\ errno = 0
  /\ ppc = "spawn" /\ ret = None /\ pstatus = None /\ ptrace = << >>
  /\ pipe = 0 /\ rd = {} /\ wr = {}
  /\ cpc = "none" /\ cidx = 1 /\ ctrace = << >> /\ cexit = None
  /\ filter = [loaded |-> FALSE, rules |-> {}]
  /\ faults = 0
  /\ host = << >> /\ boxes = << >> /\ cgroupfs = << >>

\* netlink_open: socket, bind, handle->seq = 1.
netlink_open ==
  /\ frame.pc = "closed"
  /\ frame.reqs = << >>
  /\ frame' = [frame EXCEPT !.pc = "open", !.seq = 1]
  /\ EnvFrame

netlink_close ==
  /\ frame.pc = "open"
  /\ frame' = [frame EXCEPT !.pc = "closed"]
  /\ EnvFrame

\* A call that returns before it builds a request.
NoRequest(op, name, r, e) ==
  frame' = [frame EXCEPT
              !.last = Outcome(op, name, name \in frame.links, FALSE, None, r, e)]

\* The request is built (nlmsg_seq = handle->seq++), sent with
\* netlink_send_request, and one message is read with
\* netlink_recv_response; sendmsg and recvmsg can fail.
Transact(op, name, type, flags) ==
  LET req     == Request(op, type, flags, frame.seq)
      existed == name \in frame.links
      built   == [frame EXCEPT !.seq = @ + 1, !.reqs = Append(@, req)]
  IN  /\ frame.pc = "open"
      /\ Len(frame.reqs) < MaxRequests
      /\ \/ frame' = [built EXCEPT
                        !.last = Outcome(op, name, existed, FALSE, None, -1, EINVAL)]
         \/ frame' = [built EXCEPT
                        !.last = Outcome(op, name, existed, TRUE, None, -1, EBUSY)]
         \/ \E reply \in KernelReplies(frame.links, op, name) :
              LET res == netlink_reply_result(frame.last.errno, reply)
              IN  frame' = [built EXCEPT
                              !.links = LinksAfter(@, op, name, reply),
                              !.last = Outcome(op, name, existed, TRUE, Some(reply),
                                               res.ret, res.errno)]

\* netlink_create_bridge(handle, name)
netlink_create_bridge ==
  /\ frame.pc = "open"
  /\ \E name \in LinkNames :
       IF name \in frame.links
       THEN NoRequest("netlink_create_bridge", name, 0, frame.last.errno)
       ELSE Transact("netlink_create_bridge", name, "RTM_NEWLINK", CreateFlags)
  /\ EnvFrame

\* netlink_create_veth_pair(handle, name1, name2)
netlink_create_veth_pair ==
  /\ \E name \in LinkNames :
       Transact("netlink_create_veth_pair", name, "RTM_NEWLINK", CreateFlags)
  /\ EnvFrame

\* The functions that look the interface up first and fail when it is not
\* there (if_nametoindex gives 0: errno = ENODEV, return -1).
LookupThenTransact(op, type, flags) ==
  /\ frame.pc = "open"
  /\ \E name \in LinkNames :
       IF name \notin frame.links
       THEN NoRequest(op, name, -1, ENODEV)
       ELSE Transact(op, name, type, flags)
  /\ EnvFrame

\* netlink_set_interface_up(handle, name) = netlink_set_interface_state(.., 1)
netlink_set_interface_up ==
  LookupThenTransact("netlink_set_interface_up", "RTM_SETLINK", AckFlags)

\* netlink_set_interface_master(handle, iface, master): the master is looked
\* up as the interface is.
netlink_set_interface_master ==
  LookupThenTransact("netlink_set_interface_master", "RTM_SETLINK", AckFlags)

\* netlink_add_ip_address(handle, iface, addr, prefixlen)
netlink_add_ip_address ==
  LookupThenTransact("netlink_add_ip_address", "RTM_NEWADDR", CreateFlags)

\* netlink_add_default_route(handle, gateway, iface): RTA_OIF is left out
\* when the interface is not found; the request is sent all the same.
netlink_add_default_route ==
  /\ \E name \in LinkNames :
       Transact("netlink_add_default_route", name, "RTM_NEWROUTE", CreateFlags)
  /\ EnvFrame

\* netlink_move_interface_to_netns(handle, iface, pid)
netlink_move_interface_to_netns ==
  LookupThenTransact("netlink_move_interface_to_netns", "RTM_SETLINK", AckFlags)

\* netlink_delete_interface(handle, name): an interface that is not there is
\* a success, with no request.
netlink_delete_interface ==
  /\ frame.pc = "open"
  /\ \E name \in LinkNames :
       IF name \notin frame.links
       THEN NoRequest("netlink_delete_interface", name, 0, frame.last.errno)
       ELSE Transact("netlink_delete_interface", name, "RTM_DELLINK", AckFlags)
  /\ EnvFrame

\* What the kernel sends for a dump of the main table: RTM_NEWROUTE messages
\* ("route": not a default route; "default": a default route whose RTA_OIF
\* if_indextoname resolves; "default_gone": one whose interface it does not)
\* and NLMSG_DONE after them, or an NLMSG_ERROR message.
RouteMessages == { "route", "default", "default_gone" }

DumpStreams ==
  { << "NLMSG_DONE" >>, << "NLMSG_ERROR" >> }
  \cup { << a, "NLMSG_DONE" >> : a \in RouteMessages }
  \cup { << a, b, "NLMSG_DONE" >> : a \in RouteMessages, b \in RouteMessages }

\* The loops of netlink_get_default_interface over the messages from the
\* i-th on: the result and the number of messages looked at.
RECURSIVE dump_read(_, _)
dump_read(stream, i) ==
  CASE stream[i] = "NLMSG_DONE"  -> [ret |-> -1, errno |-> ENOENT, consumed |-> i]
    [] stream[i] = "NLMSG_ERROR" -> [ret |-> -1, errno |-> EBUSY, consumed |-> i]
    [] stream[i] = "default"     -> [ret |-> 0, errno |-> 0, consumed |-> i]
    [] OTHER -> dump_read(stream, i + 1)

\* netlink_get_default_interface(handle, iface, iface_size)
netlink_get_default_interface ==
  /\ frame.pc = "open"
  /\ Len(frame.reqs) < MaxRequests
  /\ LET op    == "netlink_get_default_interface"
         req   == Request(op, "RTM_GETROUTE", DumpFlags, frame.seq)
         built == [frame EXCEPT !.seq = @ + 1, !.reqs = Append(@, req)]
     IN  \/ frame' = [built EXCEPT
                        !.last = Outcome(op, "", FALSE, FALSE, None, -1, EINVAL)]
         \/ frame' = [built EXCEPT
                        !.last = Outcome(op, "", FALSE, TRUE, None, -1, EBUSY)]
         \/ \E stream \in DumpStreams :
              LET res == dump_read(stream, 1)
              IN  frame' = [built EXCEPT
                              !.last = [Outcome(op, "", FALSE, TRUE, None, res.ret,
                                                IF res.ret = 0 THEN frame.last.errno
                                                ELSE res.errno)
                                          EXCEPT !.stream = stream,
                                                 !.consumed = res.consumed]]
  /\ EnvFrame

NextNetlink ==
  \/ netlink_open
  \/ netlink_close
  \/ netlink_create_bridge
  \/ netlink_create_veth_pair
  \/ netlink_set_interface_up
  \/ netlink_set_interface_master
  \/ netlink_add_ip_address
  \/ netlink_add_default_route
  \/ netlink_move_interface_to_netns
  \/ netlink_delete_interface
  \/ netlink_get_default_interface

SpecNetlink == InitNetlink /\ [][NextNetlink]_vars

Modifying == frame.last.op \in ModifyingOps

GotReply(r) == frame.last.sent /\ frame.last.reply = Some(r)

ErrorReply ==
  /\ frame.last.sent
  /\ frame.last.reply # None
  /\ frame.last.reply[1].type = "NLMSG_ERROR"
  /\ frame.last.reply[1].error # 0

DeletedNothing ==
  /\ frame.last.op = "netlink_delete_interface"
  /\ ~frame.last.existed
  /\ ~frame.last.sent

BridgeWasThere ==
  /\ frame.last.op = "netlink_create_bridge"
  /\ frame.last.existed
  /\ ~frame.last.sent

\* C38 as stated: a modifying operation returns success only on an ACK, or
\* for the delete of an interface that does not exist, which sends nothing;
\* a reply with a non-zero error makes it fail with errno the negated error.
C38_SuccessOnlyOnAck ==
  Modifying =>
    /\ frame.last.ret = 0 => GotReply(Ack) \/ DeletedNothing
    /\ ErrorReply =>
         /\ frame.last.ret = -1
         /\ frame.last.errno = 0 - frame.last.reply[1].error
    /\ (frame.last.op = "netlink_delete_interface" /\ ~frame.last.existed) =>
         frame.last.ret = 0 /\ ~frame.last.sent

\* C38, amended: a modifying operation fails when a reply with a non-zero
\* error comes (errno is the negated error), when the request cannot be sent
\* or no reply read, or when the interface it looks up is not there; it
\* returns success on an ACK and on a reply of any other type; the delete of
\* an interface that does not exist and the creation of a bridge whose name
\* exists succeed without a request.
C38_SuccessUnlessErrorReply ==
  Modifying =>
    /\ frame.last.ret \in { 0, -1 }
    /\ frame.last.ret = 0 <=>
         \/ frame.last.sent /\ frame.last.reply # None /\ ~ErrorReply
         \/ DeletedNothing
         \/ BridgeWasThere
    /\ GotReply(Ack) => frame.last.ret = 0
    /\ ErrorReply =>
         /\ frame.last.ret = -1
         /\ frame.last.errno = 0 - frame.last.reply[1].error
    /\ (frame.last.op = "netlink_delete_interface" /\ ~frame.last.existed) =>
         frame.last.ret = 0 /\ ~frame.last.sent

C38_Witness_ErrorThenAck ==
  /\ Len(frame.reqs) = 2
  /\ frame.reqs[1].op = "netlink_create_veth_pair"
  /\ frame.last.op = "netlink_set_interface_up"
  /\ GotReply(Ack)
  /\ frame.last.ret = 0
  /\ frame.last.errno = EEXIST

IsDump(r) == r.op = "netlink_get_default_interface"

\* nlmsg_seq of the requests of the handle: 1, 2, ... in the order they were
\* built.  handle->seq is a uint32_t; no handle of the program lives for the
\* 2^32 requests it takes to wrap.
SeqFromOne ==
  /\ \A i \in 1..Len(frame.reqs) : frame.reqs[i].seq >= 1
  /\ Len(frame.reqs) > 0 => frame.reqs[1].seq = 1
  /\ \A i \in 1..Len(frame.reqs) : \A j \in 1..Len(frame.reqs) :
       i < j => frame.reqs[i].seq < frame.reqs[j].seq

CreationsExclusive ==
  \A i \in 1..Len(frame.reqs) :
    frame.reqs[i].op \in CreationOps =>
      { "NLM_F_CREATE", "NLM_F_EXCL" } \subseteq frame.reqs[i].flags

\* Nothing is read behind NLMSG_DONE.
DumpStopsAtDone ==
  IsDump(frame.last) =>
    \A i \in 1..Len(frame.last.stream) :
      frame.last.stream[i] = "NLMSG_DONE" => frame.last.consumed <= i

\* C39 as stated: every request of a handle carries NLM_F_REQUEST|NLM_F_ACK
\* and a sequence number above those of the earlier ones, the first being 1;
\* creations carry NLM_F_CREATE|NLM_F_EXCL too, the dump NLM_F_DUMP too, and
\* the dump reads nothing behind NLMSG_DONE.
C39_EveryRequestAsksForAck ==
  /\ \A i \in 1..Len(frame.reqs) : AckFlags \subseteq frame.reqs[i].flags
  /\ SeqFromOne
  /\ CreationsExclusive
  /\ \A i \in 1..Len(frame.reqs) :
       IsDump(frame.reqs[i]) => "NLM_F_DUMP" \in frame.reqs[i].flags
  /\ DumpStopsAtDone

\* C39, amended: every request but the dump carries NLM_F_REQUEST|NLM_F_ACK;
\* the dump carries NLM_F_REQUEST|NLM_F_DUMP without NLM_F_ACK; the sequence
\* numbers, the flags of the creations and the end of the dump are as stated.
C39_RequestFlagsAndSeq ==
  /\ \A i \in 1..Len(frame.reqs) :
       IF IsDump(frame.reqs[i])
       THEN frame.reqs[i].flags = { "NLM_F_REQUEST", "NLM_F_DUMP" }
       ELSE /\ { "NLM_F_REQUEST", "NLM_F_ACK" } \subseteq frame.reqs[i].flags
            /\ "NLM_F_DUMP" \notin frame.reqs[i].flags
  /\ SeqFromOne
  /\ CreationsExclusive
  /\ DumpStopsAtDone

C39_Witness_CreationThenDump ==
  /\ frame.pc = "open"
  /\ Len(frame.reqs) = 2
  /\ frame.reqs[1].op \in CreationOps
  /\ frame.reqs[1].seq = 1
  /\ IsDump(frame.reqs[2])
  /\ frame.reqs[2].seq = 2
  /\ frame.last.stream = << "route", "NLMSG_DONE" >>
  /\ frame.last.consumed = 2

====
